---- MODULE Spec2Model ----
(***************************************************************************)
(* A model of the sfizz voice state machine (Voice.cpp) and of the sample  *)
(* pool that feeds it (FilePool.h, FilePool.cpp).                          *)
(*                                                                         *)
(* The voice is driven by one thread (the audio thread): each of its       *)
(* methods is one action.  The pool is shared by the audio thread, the     *)
(* loader threads and a control thread: each thread has a program counter  *)
(* and every access to shared state is a step of its own.                  *)
(***************************************************************************)
EXTENDS Integers, Sequences, FiniteSets, TLC

(***************************************************************************)
(* Bounds of the model.                                                    *)
(***************************************************************************)
MaxBlock == 3          \* longest block handed to renderBlock (frames)
MaxDelay == 1          \* largest event delay (frames)
MaxPosition == 8       \* renderBlock is followed up to this read position (frames)
MaxReadBlock == 5      \* longest block where the frames read are followed (frames)

(* Positions are fixed-point numbers with Den steps per frame: the float   *)
(* pitchRatio * speedRatio and floatPositionOffset are multiples of 1/Den. *)
Den == 2

SustainCC == 64
HalfCCThreshold == 64

Min(a, b) == IF a < b THEN a ELSE b

(***************************************************************************)
(* Inputs of the voice.                                                    *)
(***************************************************************************)
BlockLens == 1..MaxBlock
Delays == 0..MaxDelay
Channels == {1, 2}
Notes == {60, 61}
CCNumbers == {SustainCC, 7}
CCValues == {0, HalfCCThreshold}
TriggerTypes == {"NoteOn", "NoteOff", "CC"}
PitchRatios == {1, 2}      \* in units of 1/Den: 0.5 and 1.0
Groups == {3, 7}

(* The regions a voice can be armed with, as the values the Region         *)
(* accessors return: isGenerator(), loopMode == one_shot, shouldLoop(),    *)
(* checkSustain, offBy (0: none), trueSampleEnd(), loopRange, getOffset(), *)
(* the frames of preloadedData, canUsePreloadedData(), the stage lengths   *)
(* of amplitudeEG in samples, sampleRate / the host's sample rate,         *)
(* isStereo() and the controllers of amplitudeCC, volumeCC, panCC,         *)
(* positionCC and widthCC (0: none).                                       *)
Regions ==
  << [generator |-> FALSE, oneShot |-> FALSE, loops |-> FALSE, checkSustain |-> TRUE,
      offBy |-> 0, trueSampleEnd |-> 4, loopStart |-> 0, loopEnd |-> 4,
      offset |-> 0, preloadFrames |-> 4, usePreload |-> TRUE,
      attack |-> 1, hold |-> 0, decay |-> 1, release |-> 1, speedRatio |-> 1,
      stereo |-> FALSE, amplitudeCC |-> 0, volumeCC |-> 7, panCC |-> 7,
      positionCC |-> 0, widthCC |-> 0],
     [generator |-> FALSE, oneShot |-> FALSE, loops |-> TRUE, checkSustain |-> FALSE,
      offBy |-> 7, trueSampleEnd |-> 4, loopStart |-> 1, loopEnd |-> 4,
      offset |-> 1, preloadFrames |-> 3, usePreload |-> FALSE,
      attack |-> 0, hold |-> 1, decay |-> 0, release |-> 2, speedRatio |-> 3,
      stereo |-> FALSE, amplitudeCC |-> 7, volumeCC |-> 0, panCC |-> 0,
      positionCC |-> 0, widthCC |-> 0],
     [generator |-> FALSE, oneShot |-> TRUE, loops |-> FALSE, checkSustain |-> TRUE,
      offBy |-> 3, trueSampleEnd |-> 3, loopStart |-> 0, loopEnd |-> 3,
      offset |-> 0, preloadFrames |-> 3, usePreload |-> TRUE,
      attack |-> 0, hold |-> 0, decay |-> 0, release |-> 0, speedRatio |-> 1,
      stereo |-> TRUE, amplitudeCC |-> 0, volumeCC |-> 0, panCC |-> 0,
      positionCC |-> 64, widthCC |-> 64],
     [generator |-> TRUE, oneShot |-> FALSE, loops |-> FALSE, checkSustain |-> FALSE,
      offBy |-> 0, trueSampleEnd |-> 0, loopStart |-> 0, loopEnd |-> 0,
      offset |-> 0, preloadFrames |-> 0, usePreload |-> TRUE,
      attack |-> 1, hold |-> 0, decay |-> 0, release |-> 1, speedRatio |-> 1,
      stereo |-> FALSE, amplitudeCC |-> 0, volumeCC |-> 0, panCC |-> 0,
      positionCC |-> 0, widthCC |-> 0],
     [generator |-> FALSE, oneShot |-> FALSE, loops |-> TRUE, checkSustain |-> FALSE,
      offBy |-> 0, trueSampleEnd |-> 4, loopStart |-> 1, loopEnd |-> 4,
      offset |-> 0, preloadFrames |-> 4, usePreload |-> TRUE,
      attack |-> 0, hold |-> 0, decay |-> 0, release |-> 0, speedRatio |-> 1,
      stereo |-> FALSE, amplitudeCC |-> 0, volumeCC |-> 0, panCC |-> 0,
      positionCC |-> 0, widthCC |-> 0] >>
RegionIds == 1..Len(Regions)
nullptr == 0
FullFileFrames == 5        \* frames of a buffer delivered by setFileData

(***************************************************************************)
(* Bounds and inputs of the pool.                                          *)
(***************************************************************************)
NumBackgroundThreads == 1  \* config::numBackgroundThreads, scaled down
MaxVoices == 1             \* config::maxVoices: the capacity of both queues, scaled down
MaxPromises == 2           \* number of getFilePromise calls in a run
PreloadFrames == 2         \* config::preloadSize, scaled down

MaxOffset == 2             \* largest maxOffset handed to preloadFile
MaxPreloadSize == 3        \* largest size handed to setPreloadSize

Loaders == 1..NumBackgroundThreads
\* the loader threads of the largest pool that is looked at: a pool runs the
\* first numBackgroundThreads of them, the others are never started
MaxLoaders == 2
LoaderThreads == 1..MaxLoaders
MaxOffsets == 0..MaxOffset
PreloadSizes == 0..MaxPreloadSize
OversamplingFactors == {1, 2, 4, 8}   \* enum Oversampling: x1, x2, x4, x8
PromiseIds == 1..MaxPromises

(* The files below the root directory ("a.wav" is there, "none.wav" is     *)
(* not), as the decoder reports them.                                      *)
FileNames == {"a.wav", "none.wav"}
Disk ==
  [name \in FileNames |->
     IF name = "a.wav"
     THEN [exists |-> TRUE, channels |-> 1, frames |-> 4, samplerate |-> 48000]
     ELSE [exists |-> FALSE, channels |-> 0, frames |-> 0, samplerate |-> 0]]

\* a default-constructed FilePromise
EmptyPromise ==
  [filename |-> "", preloadedData |-> nullptr, fileData |-> nullptr,
   sampleRate |-> 44100, dataReady |-> FALSE, oversamplingFactor |-> 1]

\* a map entry that is not there
NoHandle == [present |-> FALSE, frames |-> 0, sampleRate |-> 44100]

Range(q) == { q[i] : i \in 1..Len(q) }

VARIABLES
  \* ---- Voice ----
  state,                 \* State::idle / playing / release
  region,                \* Region*: nullptr or an index of Regions
  triggerType, triggerNumber, triggerChannel,
  noteIsOff,
  egEnvelope,            \* the ADSR envelope
  initialDelay,
  sourcePosition,
  floatPositionOffset,   \* in units of 1/Den
  pitchRatio, speedRatio,
  dataReady, fileData, ticket,
  envelopeEvents,        \* the scheduled events of the five linear envelopes
  lastCall               \* history: the last method called on the voice

voiceVars == << state, region, triggerType, triggerNumber, triggerChannel,
                noteIsOff, egEnvelope, initialDelay, sourcePosition,
                floatPositionOffset, pitchRatio, speedRatio,
                dataReady, fileData, ticket, envelopeEvents, lastCall >>

VARIABLES
  \* ---- FilePool ----
  preloadedFiles,        \* name -> PreloadedFileHandle (present: the name is a key)
  preloadSize,
  oversamplingFactor,
  promise,               \* the FilePromise objects, by id
  nextPromise,           \* the id the next make_shared gives
  callerHolds,           \* the promises a caller of getFilePromise still owns
  promiseQueue,          \* pending
  filledPromiseQueue,    \* filled
  temporaryFilePromises,
  promisesToClean,
  quitThread, emptyQueue, threadsLoading,
  loaderPc, loaderPromise,   \* per loader: its place in loadingThread, its local promise
  audioPc, returned, enqueued,   \* the audio thread's call, the promise getFilePromise returns
  ctrlPc,                \* the control thread's call
  \* ---- history (not read by the program) ----
  destroyedBy,           \* where the last reference to a promise was dropped
  took,                  \* how a loader found the promise it dequeued
  pushed,                \* the promises that were pushed onto filled
  fileWrites,            \* number of writes to a promise's fileData
  fullRead, readBeforeWrite,     \* a consumer read a full buffer / one that was not written
  sweepHeld,             \* the swept promises a loader still held during the sweep
  reloaded,              \* the heads that setPreloadSize or setOversamplingFactor read again
  pendingAtEmpty, emptyPhase     \* the pending queue when emptyFileLoadingQueues was called

poolVars == << preloadedFiles, preloadSize, oversamplingFactor, promise, nextPromise,
               callerHolds, promiseQueue, filledPromiseQueue, temporaryFilePromises,
               promisesToClean, quitThread, emptyQueue, threadsLoading,
               loaderPc, loaderPromise, audioPc, returned, enqueued, ctrlPc >>

poolHistory == << destroyedBy, took, pushed, fileWrites, fullRead, readBeforeWrite,
                  sweepHeld, pendingAtEmpty, emptyPhase, reloaded >>

VARIABLES
  \* ---- Buffer<Type, Alignment> ----
  bufferType,            \* the instantiation: sizeof(value_type) and Alignment
  buffer,                \* the six fields of one Buffer; pointers are byte addresses
  heap,                  \* the raw blocks that are allocated: address -> bytes
  \* ---- AudioSpan<Type, MaxChannels> ----
  audioSpan,             \* numFrames and numChannels of one AudioSpan
  \* ---- history (not read by the program) ----
  bufferCall,            \* the last call on the buffer, its argument and what it returned
  heapFault,             \* the first misuse of the allocator, if any
  spanCall               \* the lengths of the spans the AudioSpan was constructed from

dataVars == << bufferType, buffer, heap, audioSpan, bufferCall, heapFault, spanCall >>

vars == << voiceVars, poolVars, poolHistory, dataVars >>

(***************************************************************************)
(* The ADSR envelope: delay -> attack -> hold -> decay -> sustain ->       *)
(* release -> done, each stage a number of samples.                        *)
(***************************************************************************)
EGDone ==
  [st |-> "Done", delay |-> 0, attack |-> 0, hold |-> 0, decay |-> 0,
   release |-> 0, shouldRelease |-> FALSE, releaseDelay |-> 0]

EGReset(attack, release, delay, decay, hold) ==
  [st |-> "Delay", delay |-> delay, attack |-> attack, hold |-> hold,
   decay |-> decay, release |-> release, shouldRelease |-> FALSE, releaseDelay |-> 0]

EGStartRelease(e, delay) ==
  [e EXCEPT !.shouldRelease = TRUE, !.releaseDelay = delay]

\* the stages that fall through to the next one when their time has run out
EGFromDecay(e) ==
  IF e.decay > 0 THEN [e EXCEPT !.st = "Decay", !.decay = @ - 1]
  ELSE [e EXCEPT !.st = "Sustain"]
EGFromHold(e) ==
  IF e.hold > 0 THEN [e EXCEPT !.st = "Hold", !.hold = @ - 1] ELSE EGFromDecay(e)
EGFromAttack(e) ==
  IF e.attack > 0 THEN [e EXCEPT !.st = "Attack", !.attack = @ - 1] ELSE EGFromHold(e)
EGFromDelay(e) ==
  IF e.delay > 0 THEN [e EXCEPT !.delay = @ - 1] ELSE EGFromAttack(e)

EGAdvance(e) ==
  CASE e.st = "Delay" -> EGFromDelay(e)
    [] e.st = "Attack" -> EGFromAttack(e)
    [] e.st = "Hold" -> EGFromHold(e)
    [] e.st = "Decay" -> EGFromDecay(e)
    [] e.st = "Sustain" -> e
    [] e.st = "Release" ->
         IF e.release > 0 THEN [e EXCEPT !.release = @ - 1]
         ELSE [e EXCEPT !.st = "Done"]
    [] OTHER -> e

\* a pending release starts when its delay has run out
EGPendingRelease(e) ==
  IF e.shouldRelease
  THEN IF e.releaseDelay = 0
       THEN [e EXCEPT !.st = "Release", !.shouldRelease = FALSE]
       ELSE [e EXCEPT !.releaseDelay = @ - 1]
  ELSE e

(* One sample of the envelope.  (The envelope is bound to a value v once,   *)
(* so that the nested calls of a block evaluate it once.)                  *)
EGNextValue(e) ==
  CHOOSE r \in { EGAdvance(w) : w \in { EGPendingRelease(v) : v \in {e} } } : TRUE

RECURSIVE EGGetBlock(_, _)
EGGetBlock(e, n) == IF n = 0 THEN e ELSE EGGetBlock(EGNextValue(e), n - 1)

EGIsSmoothing(e) == e.st # "Done"

(***************************************************************************)
(* The linear smoothing envelopes: the schedule of an envelope is the set  *)
(* of its events << offset in the block, target >>, where the target is    *)
(* named by the formula that computed it.                                  *)
(***************************************************************************)
Envelopes == {"amplitude", "volume", "pan", "position", "width"}

LinearReset == {}
LinearRegisterEvent(events, delay, target) == events \cup {<< delay, target >>}
LinearGetBlock(events) == {}

(***************************************************************************)
(* Voice::release: only a playing voice starts releasing.                  *)
(***************************************************************************)
\* a faulty variant: the state is not looked at
release_Unguarded(st, eg, delay) ==
  [state |-> "release", eg |-> EGStartRelease(eg, delay)]

release(st, eg, delay) ==
  IF st = "playing"
  THEN [state |-> "release", eg |-> EGStartRelease(eg, delay)]
  ELSE [state |-> st, eg |-> eg]

(***************************************************************************)
(* Voice::fillWithData: the read positions of one block.                   *)
(***************************************************************************)
\* the frames of the source the block reads
SourceFrames(r, ready, file) ==
  IF r.usePreload THEN r.preloadFrames
  ELSE IF ~ready THEN r.preloadFrames
  ELSE file

sampleEndOf(r, frames) == Min(r.trueSampleEnd, frames) - 1

\* cumsum of the jumps, split into integer index (plus sourcePosition) and fraction
RawIndices(pos, off, jump, m) == [k \in 1..m |-> pos + ((off + k * jump) \div Den)]
RawRightCoeffs(off, jump, m) == [k \in 1..m |-> (off + k * jump) % Den]

\* the looping branch: each index past sampleEnd pulls itself and all later ones back
PullBack(idx, k, offset) ==
  [j \in 1..Len(idx) |-> IF j >= k THEN idx[j] - offset ELSE idx[j]]

RECURSIVE WrapIndices(_, _, _, _)
WrapIndices(idx, k, sampleEnd, offset) ==
  CHOOSE r \in { IF k > Len(v) THEN v
                 ELSE IF v[k] > sampleEnd
                      THEN WrapIndices(PullBack(v, k, offset), k + 1, sampleEnd, offset)
                      ELSE WrapIndices(v, k + 1, sampleEnd, offset) : v \in {idx} } : TRUE

\* the other branch: the first index past sampleEnd (0: none)
FirstPast(idx, sampleEnd) ==
  IF \E k \in 1..Len(idx) : idx[k] > sampleEnd
  THEN CHOOSE k \in 1..Len(idx) :
         /\ idx[k] > sampleEnd
         /\ \A j \in 1..(k - 1) : idx[j] <= sampleEnd
  ELSE 0

\* absl::c_find(indices, sampleEnd), as a 0-based distance from begin()
FindIndex(idx, v) ==
  IF \E k \in 1..Len(idx) : idx[k] = v
  THEN (CHOOSE k \in 1..Len(idx) : idx[k] = v /\ \A j \in 1..(k - 1) : idx[j] # v) - 1
  ELSE Len(idx)

\* indices and right coefficients of a block of m > 0 frames
BlockReads(r, frames, pos, off, jump, m) ==
  LET raw == RawIndices(pos, off, jump, m)
      right == RawRightCoeffs(off, jump, m)
      sampleEnd == sampleEndOf(r, frames)
  IN IF r.loops /\ r.loopEnd <= frames
     THEN [indices |-> WrapIndices(raw, 1, sampleEnd, sampleEnd - r.loopStart),
           rightCoeffs |-> right]
     ELSE LET f == FirstPast(raw, sampleEnd)
          IN [indices |-> [k \in 1..m |-> IF f # 0 /\ k >= f THEN sampleEnd ELSE raw[k]],
              rightCoeffs |-> [k \in 1..m |-> IF f # 0 /\ k >= f THEN Den ELSE right[k]]]

\* what fillWithData leaves behind: the new read position and, when the end
\* of a sample that does not loop was reached, the offset to release at (-1: none)
fillWithData(st, r, ready, file, pos, off, jump, m) ==
  IF m = 0
  THEN [sourcePosition |-> pos, floatPositionOffset |-> off, releaseAt |-> -1]
  ELSE LET frames == SourceFrames(r, ready, file)
           reads == BlockReads(r, frames, pos, off, jump, m)
           newPos == reads.indices[m]
       IN [sourcePosition |-> newPos,
           floatPositionOffset |-> reads.rightCoeffs[m],
           releaseAt |-> IF st # "release" /\ ~r.loops /\ newPos = sampleEndOf(r, frames)
                         THEN FindIndex(reads.indices, sampleEndOf(r, frames))
                         ELSE -1]

(* One frame of a rendered block: silence, a frame of the generator, or    *)
(* source[index] * (Den - right) / Den + source[index + 1] * right / Den.  *)
Silence == [index |-> -1, right |-> 0]
Generated == [index |-> -2, right |-> 0]

\* what fillWithData writes into a buffer of m > 0 frames: the interpolated
\* reads, and zeros from the offset the voice is released at
fillOutput(st, r, ready, file, pos, off, jump, m) ==
  LET frames == SourceFrames(r, ready, file)
      reads == BlockReads(r, frames, pos, off, jump, m)
      fill == fillWithData(st, r, ready, file, pos, off, jump, m)
  IN [k \in 1..m |->
        IF fill.releaseAt >= 0 /\ k > fill.releaseAt THEN Silence
        ELSE [index |-> reads.indices[k], right |-> reads.rightCoeffs[k]]]

(***************************************************************************)
(* The voice after construction: idle, no region.                          *)
(***************************************************************************)
VoiceInit ==
  /\ state = "idle"
  /\ region = nullptr
  /\ triggerType = "NoteOn"
  /\ triggerNumber = 60
  /\ triggerChannel = 1
  /\ noteIsOff = FALSE
  /\ egEnvelope = EGDone
  /\ initialDelay = 0
  /\ sourcePosition = 0
  /\ floatPositionOffset = 0
  /\ pitchRatio = Den
  /\ speedRatio = 1
  /\ dataReady = FALSE
  /\ fileData = nullptr
  /\ ticket = 0
  /\ envelopeEvents = [e \in Envelopes |-> LinearReset]
  /\ lastCall = "none"

\* the voice has not brought the process down by reading a file that is null
voiceAlive == lastCall # "renderBlock.nullFile"

(***************************************************************************)
(* Voice::startVoice with prepareEGEnvelope.  The region is not null: the  *)
(* method reads through the pointer.                                       *)
(***************************************************************************)
StartVoice(r, delay, channel, number, type, pitch) ==
  /\ voiceAlive
  /\ LET d == IF delay < 0 THEN 0 ELSE delay
     IN /\ triggerType' = type
        /\ triggerNumber' = number
        /\ triggerChannel' = channel
        /\ region' = r
        /\ state' = "playing"
        /\ speedRatio' = Regions[r].speedRatio
        /\ pitchRatio' = pitch
        /\ sourcePosition' = Regions[r].offset
        /\ initialDelay' = d
        /\ egEnvelope' = EGReset(Regions[r].attack, Regions[r].release, d,
                                 Regions[r].decay, Regions[r].hold)
        /\ envelopeEvents' = [e \in Envelopes |-> LinearReset]
        /\ lastCall' = "startVoice"
        /\ UNCHANGED << noteIsOff, floatPositionOffset, dataReady, fileData, ticket >>

(***************************************************************************)
(* Voice::release, called from outside.                                    *)
(***************************************************************************)
Release(delay) ==
  /\ voiceAlive
  /\ LET rel == release(state, egEnvelope, delay)
     IN /\ state' = rel.state
        /\ egEnvelope' = rel.eg
        /\ lastCall' = "release"
        /\ UNCHANGED envelopeEvents
        /\ UNCHANGED << region, triggerType, triggerNumber, triggerChannel, noteIsOff,
                        initialDelay, sourcePosition, floatPositionOffset, pitchRatio,
                        speedRatio, dataReady, fileData, ticket >>

(***************************************************************************)
(* Voice::registerNoteOff.  sustain is midiState.cc[config::sustainCC].    *)
(***************************************************************************)
\* a faulty variant: the channel is not compared
noteOffMatches_AnyChannel(channel, noteNumber) == triggerNumber = noteNumber

\* the note-off is the one of the note that triggered the voice
noteOffMatches(channel, noteNumber) ==
  triggerChannel = channel /\ triggerNumber = noteNumber

RegisterNoteOff(delay, channel, noteNumber, sustain) ==
  /\ voiceAlive
  /\ LET matches == region # nullptr /\ state = "playing"
                    /\ noteOffMatches(channel, noteNumber)
         releases == matches /\ ~Regions[region].oneShot
                     /\ (~Regions[region].checkSustain \/ sustain < HalfCCThreshold)
         rel == IF releases THEN release(state, egEnvelope, delay)
                ELSE [state |-> state, eg |-> egEnvelope]
     IN /\ noteIsOff' = IF matches THEN TRUE ELSE noteIsOff
        /\ state' = rel.state
        /\ egEnvelope' = rel.eg
        /\ lastCall' = "registerNoteOff"
        /\ UNCHANGED envelopeEvents
        /\ UNCHANGED << region, triggerType, triggerNumber, triggerChannel,
                        initialDelay, sourcePosition, floatPositionOffset, pitchRatio,
                        speedRatio, dataReady, fileData, ticket >>

(***************************************************************************)
(* Voice::registerCC: the release under the sustain pedal, and the event   *)
(* each matching controller of the region registers.                       *)
(***************************************************************************)
\* the events registerCC registers on envelope e
registeredOn(r, e, delay, ccNumber) ==
  CASE e = "amplitude" ->
         (IF r.amplitudeCC # 0 /\ ccNumber = r.amplitudeCC
          THEN {<< delay, "gain" >>} ELSE {})
         \cup (IF r.volumeCC # 0 /\ ccNumber = r.volumeCC
               THEN {<< delay, "volume" >>} ELSE {})
    [] e = "pan" ->
         IF r.panCC # 0 /\ ccNumber = r.panCC THEN {<< delay, "pan" >>} ELSE {}
    [] e = "position" ->
         IF r.positionCC # 0 /\ ccNumber = r.positionCC
         THEN {<< delay, "position" >>} ELSE {}
    [] e = "width" ->
         IF r.widthCC # 0 /\ ccNumber = r.widthCC THEN {<< delay, "width" >>} ELSE {}
    [] OTHER -> {}

\* a faulty variant: the latched note-off is not looked at
sustainReleases_IgnoresLatch(ccNumber, ccValue) ==
  /\ Regions[region].checkSustain
  /\ ccNumber = SustainCC /\ ccValue < HalfCCThreshold

\* the pedal came up under a note that was held by it
sustainReleases(ccNumber, ccValue) ==
  /\ Regions[region].checkSustain /\ noteIsOff
  /\ ccNumber = SustainCC /\ ccValue < HalfCCThreshold

RegisterCC(delay, ccNumber, ccValue) ==
  /\ voiceAlive
  /\ LET releases == region # nullptr /\ sustainReleases(ccNumber, ccValue)
         rel == IF releases THEN release(state, egEnvelope, delay)
                ELSE [state |-> state, eg |-> egEnvelope]
     IN /\ state' = rel.state
        /\ egEnvelope' = rel.eg
        /\ envelopeEvents' =
             IF region = nullptr THEN envelopeEvents
             ELSE [e \in Envelopes |->
                     envelopeEvents[e] \cup registeredOn(Regions[region], e, delay, ccNumber)]
        /\ lastCall' = "registerCC"
        /\ UNCHANGED << region, triggerType, triggerNumber, triggerChannel, noteIsOff,
                        initialDelay, sourcePosition, floatPositionOffset, pitchRatio,
                        speedRatio, dataReady, fileData, ticket >>

(***************************************************************************)
(* Voice::checkOffGroup.                                                   *)
(***************************************************************************)
\* a faulty variant: the trigger is not looked at
checkOffGroup_AnyTrigger(group) ==
  region # nullptr /\ Regions[region].offBy # 0 /\ Regions[region].offBy = group

\* the value checkOffGroup returns
checkOffGroup(group) ==
  region # nullptr /\ triggerType = "NoteOn"
  /\ Regions[region].offBy # 0 /\ Regions[region].offBy = group

CheckOffGroup(delay, group) ==
  /\ voiceAlive
  /\ LET rel == IF checkOffGroup(group) THEN release(state, egEnvelope, delay)
                ELSE [state |-> state, eg |-> egEnvelope]
     IN /\ state' = rel.state
        /\ egEnvelope' = rel.eg
        /\ lastCall' = "checkOffGroup"
        /\ UNCHANGED envelopeEvents
        /\ UNCHANGED << region, triggerType, triggerNumber, triggerChannel, noteIsOff,
                        initialDelay, sourcePosition, floatPositionOffset, pitchRatio,
                        speedRatio, dataReady, fileData, ticket >>

(***************************************************************************)
(* Voice::reset.                                                           *)
(***************************************************************************)
\* a faulty variant: the region pointer is kept
reset_KeepsRegion ==
  /\ dataReady' = FALSE
  /\ fileData' = nullptr
  /\ state' = "idle"
  /\ UNCHANGED region
  /\ sourcePosition' = 0
  /\ floatPositionOffset' = 0
  /\ noteIsOff' = FALSE

\* a faulty variant: the file and its flag are kept
reset_KeepsFile ==
  /\ state' = "idle"
  /\ region' = nullptr
  /\ sourcePosition' = 0
  /\ floatPositionOffset' = 0
  /\ noteIsOff' = FALSE
  /\ UNCHANGED << dataReady, fileData >>

reset ==
  /\ dataReady' = FALSE
  /\ fileData' = nullptr
  /\ state' = "idle"
  /\ region' = nullptr
  /\ sourcePosition' = 0
  /\ floatPositionOffset' = 0
  /\ noteIsOff' = FALSE

Reset ==
  /\ voiceAlive
  /\ reset
  /\ lastCall' = "reset"
  /\ UNCHANGED envelopeEvents
  /\ UNCHANGED << triggerType, triggerNumber, triggerChannel, egEnvelope,
                  initialDelay, pitchRatio, speedRatio, ticket >>

(***************************************************************************)
(* Voice::renderBlock on a block of n frames: fillWithData (or the         *)
(* generator), the envelopes of processMono / processStereo, and the       *)
(* reset at the end of the envelope.                                       *)
(***************************************************************************)
\* a faulty variant: the end of the envelope is not looked at
envelopeEnded_Never(eg) == FALSE

\* the check that ends renderBlock
envelopeEnded(eg) == ~EGIsSmoothing(eg)

\* the linear envelopes processMono and processStereo take a block from
processed(r) ==
  IF r.stereo THEN {"amplitude", "volume", "width", "position"}
  ELSE {"amplitude", "volume", "pan"}

\* a faulty variant: the delay is not looked at
consumedDelay_None(n) == 0

\* the frames of the block the remaining delay takes
consumedDelay(n) == Min(initialDelay, n)

\* the frames renderBlock leaves in the block, before the gains
renderOutput(n) ==
  IF state = "idle" \/ region = nullptr THEN [k \in 1..n |-> Silence]
  ELSE LET r == Regions[region]
           delay == consumedDelay(n)
           m == n - delay
           data == IF r.generator \/ m = 0 THEN << >>
                   ELSE fillOutput(state, r, dataReady, fileData, sourcePosition,
                                   floatPositionOffset, pitchRatio * speedRatio, m)
       IN [k \in 1..n |->
             IF k <= delay THEN Silence
             ELSE IF r.generator THEN Generated
             ELSE data[k - delay]]

\* the file is the source of the block although there is none: the region
\* cannot use the preloaded head, dataReady is set and fileData is null
readsNullFile(n) ==
  /\ state # "idle" /\ region # nullptr
  /\ ~Regions[region].generator /\ ~Regions[region].usePreload
  /\ n - consumedDelay(n) > 0
  /\ dataReady /\ fileData = nullptr

\* renderBlock on a voice that is armed
renderArmed(n) ==
  LET r == Regions[region]
      delay == consumedDelay(n)
      fill == IF r.generator
              THEN [sourcePosition |-> sourcePosition,
                    floatPositionOffset |-> floatPositionOffset,
                    releaseAt |-> -1]
              ELSE fillWithData(state, r, dataReady, fileData, sourcePosition,
                                floatPositionOffset, pitchRatio * speedRatio,
                                n - delay)
      rel == IF fill.releaseAt >= 0
             THEN release(state, egEnvelope, fill.releaseAt)
             ELSE [state |-> state, eg |-> egEnvelope]
      eg == EGGetBlock(rel.eg, n)
  IN /\ initialDelay' = initialDelay - delay
     /\ egEnvelope' = eg
     /\ envelopeEvents' =
          [e \in Envelopes |->
             IF e \in processed(r) THEN LinearGetBlock(envelopeEvents[e])
             ELSE envelopeEvents[e]]
     /\ IF envelopeEnded(eg)
        THEN reset /\ lastCall' = "renderBlock.reset"
        ELSE /\ lastCall' = "renderBlock"
             /\ state' = rel.state
             /\ sourcePosition' = fill.sourcePosition
             /\ floatPositionOffset' = fill.floatPositionOffset
             /\ UNCHANGED << region, noteIsOff, dataReady, fileData >>
     /\ UNCHANGED << triggerType, triggerNumber, triggerChannel,
                     pitchRatio, speedRatio, ticket >>

RenderBlock(n) ==
  /\ voiceAlive
  /\ sourcePosition <= MaxPosition
  /\ IF state = "idle" \/ region = nullptr
     THEN /\ lastCall' = "renderBlock.idle"
          /\ UNCHANGED envelopeEvents
          /\ UNCHANGED << state, region, triggerType, triggerNumber, triggerChannel,
                            noteIsOff, egEnvelope, initialDelay, sourcePosition,
                            floatPositionOffset, pitchRatio, speedRatio, dataReady,
                            fileData, ticket >>
     ELSE IF readsNullFile(n)
     THEN \* *fileData on a null pointer is undefined: the read faults, or it
          \* goes on with whatever is there, here a source without frames
          \/ /\ lastCall' = "renderBlock.nullFile"
             /\ UNCHANGED envelopeEvents
             /\ UNCHANGED << state, region, triggerType, triggerNumber, triggerChannel,
                             noteIsOff, egEnvelope, initialDelay, sourcePosition,
                             floatPositionOffset, pitchRatio, speedRatio, dataReady,
                             fileData, ticket >>
          \/ renderArmed(n)
     ELSE renderArmed(n)

(***************************************************************************)
(* Voice::expectFileData, setFileData and garbageCollect.                  *)
(***************************************************************************)
ExpectFileData(t) ==
  /\ voiceAlive
  /\ ticket' = t
  /\ lastCall' = "expectFileData"
  /\ UNCHANGED envelopeEvents
  /\ UNCHANGED << state, region, triggerType, triggerNumber, triggerChannel,
                  noteIsOff, egEnvelope, initialDelay, sourcePosition,
                  floatPositionOffset, pitchRatio, speedRatio, dataReady, fileData >>

\* a faulty variant: every delivery is taken
staleTicket_Never(t) == FALSE

\* the delivery is not the one the voice waits for
staleTicket(t) == t # ticket

SetFileData(file, t) ==
  /\ voiceAlive
  /\ IF staleTicket(t)
     THEN UNCHANGED << fileData, dataReady >>
     ELSE fileData' = file /\ dataReady' = TRUE
  /\ lastCall' = "setFileData"
  /\ UNCHANGED envelopeEvents
  /\ UNCHANGED << state, region, triggerType, triggerNumber, triggerChannel,
                  noteIsOff, egEnvelope, initialDelay, sourcePosition,
                  floatPositionOffset, pitchRatio, speedRatio, ticket >>

GarbageCollect ==
  /\ voiceAlive
  /\ fileData' = IF state = "idle" /\ region = nullptr THEN nullptr ELSE fileData
  /\ lastCall' = "garbageCollect"
  /\ UNCHANGED envelopeEvents
  /\ UNCHANGED << state, region, triggerType, triggerNumber, triggerChannel,
                  noteIsOff, egEnvelope, initialDelay, sourcePosition,
                  floatPositionOffset, pitchRatio, speedRatio, dataReady, ticket >>

isFree == region = nullptr
canBeStolen == state = "release"

(***************************************************************************)
(* The pool.  A promise is a shared_ptr<FilePromise>: its use_count is the *)
(* number of places that hold it.                                          *)
(***************************************************************************)
Count(q, p) == Cardinality({ i \in 1..Len(q) : q[i] = p })

UseCount(p, held, pending, filled, locals, temporary, toClean) ==
  (IF p \in held THEN 1 ELSE 0) + Count(pending, p) + Count(filled, p)
  + Cardinality({ l \in LoaderThreads : locals[l] = p }) + Count(temporary, p) + Count(toClean, p)

use_count(p) ==
  UseCount(p, callerHolds, promiseQueue, filledPromiseQueue, loaderPromise,
           temporaryFilePromises, promisesToClean)

\* history: the promises whose last reference this step drops were destroyed at `site`
Destroyed(site) ==
  destroyedBy' =
    [p \in PromiseIds |->
       IF /\ p < nextPromise
          /\ destroyedBy[p] = "none"
          /\ UseCount(p, callerHolds', promiseQueue', filledPromiseQueue', loaderPromise',
                      temporaryFilePromises', promisesToClean') = 0
       THEN site
       ELSE destroyedBy[p]]

PoolInit ==
  /\ preloadedFiles = [name \in FileNames |-> NoHandle]
  /\ preloadSize = PreloadFrames
  /\ oversamplingFactor = 1
  /\ promise = [p \in PromiseIds |-> EmptyPromise]
  /\ nextPromise = 1
  /\ callerHolds = {}
  /\ promiseQueue = << >>
  /\ filledPromiseQueue = << >>
  /\ temporaryFilePromises = << >>
  /\ promisesToClean = << >>
  /\ quitThread = FALSE
  /\ emptyQueue = FALSE
  /\ threadsLoading = 0
  /\ loaderPc = [l \in LoaderThreads |-> "top"]
  /\ loaderPromise = [l \in LoaderThreads |-> nullptr]
  /\ audioPc = "idle"
  /\ returned = nullptr
  /\ enqueued = FALSE
  /\ ctrlPc = "idle"
  /\ destroyedBy = [p \in PromiseIds |-> "none"]
  /\ took = [p \in PromiseIds |-> "none"]
  /\ pushed = {}
  /\ fileWrites = [p \in PromiseIds |-> 0]
  /\ fullRead = FALSE
  /\ readBeforeWrite = FALSE
  /\ sweepHeld = {}
  /\ reloaded = {}
  /\ pendingAtEmpty = {}
  /\ emptyPhase = "none"

VoiceIdle == UNCHANGED << voiceVars, dataVars >>

\* readFromFile: the frames of the buffer it returns
readFromFile(numFrames, factor) == numFrames * factor

(***************************************************************************)
(* FilePool::preloadFile (control thread).                                 *)
(***************************************************************************)
preloadFile(files, name, maxOffset) ==
  IF ~Disk[name].exists THEN files
  ELSE IF Disk[name].channels # 1 /\ Disk[name].channels # 2 THEN files
  ELSE LET frames == Disk[name].frames
           framesToLoad == IF preloadSize = 0 THEN frames
                           ELSE Min(frames, maxOffset + preloadSize)
       IN IF files[name].present
          THEN IF framesToLoad > files[name].frames
               THEN [files EXCEPT ![name].frames = readFromFile(framesToLoad, oversamplingFactor)]
               ELSE files
          ELSE [files EXCEPT ![name] =
                  [present |-> TRUE,
                   frames |-> readFromFile(framesToLoad, oversamplingFactor),
                   sampleRate |-> Disk[name].samplerate * oversamplingFactor]]

PreloadFile(name, maxOffset) ==
  /\ ctrlPc = "idle"
  /\ preloadedFiles' = preloadFile(preloadedFiles, name, maxOffset)
  /\ UNCHANGED << preloadSize, oversamplingFactor, promise, nextPromise, callerHolds,
                  promiseQueue, filledPromiseQueue, temporaryFilePromises,
                  promisesToClean, quitThread, emptyQueue, threadsLoading, loaderPc,
                  loaderPromise, audioPc, returned, enqueued, ctrlPc >>
  /\ UNCHANGED poolHistory
  /\ VoiceIdle

\* what preloadFile returns
preloadFileReturns(name) ==
  Disk[name].exists /\ (Disk[name].channels = 1 \/ Disk[name].channels = 2)

(***************************************************************************)
(* FilePool::setPreloadSize and FilePool::setOversamplingFactor (control   *)
(* thread): every resident head is read again from its file.               *)
(***************************************************************************)
\* a faulty variant: the frames of the buffer are taken for frames of the file
headFrames_Oversampled(handle, factor) == handle.frames

\* preloadedData->getNumFrames() / oversamplingFactor
headFrames(handle, factor) == handle.frames \div factor

\* numFrames > preloadSize ? numFrames - preloadSize : 0
headMaxOffset(handle, size, factor) ==
  LET numFrames == headFrames(handle, factor)
  IN IF numFrames > size THEN numFrames - size ELSE 0

setPreloadSize(files, oldSize, factor, newSize) ==
  [name \in FileNames |->
     IF files[name].present
     THEN [files[name] EXCEPT
             !.frames = readFromFile(newSize + headMaxOffset(files[name], oldSize, factor),
                                     factor)]
     ELSE files[name]]

SetPreloadSize(newSize) ==
  /\ ctrlPc = "idle"
  /\ preloadedFiles' = setPreloadSize(preloadedFiles, preloadSize, oversamplingFactor, newSize)
  /\ preloadSize' = newSize
  /\ UNCHANGED << oversamplingFactor, promise, nextPromise, callerHolds,
                  promiseQueue, filledPromiseQueue, temporaryFilePromises,
                  promisesToClean, quitThread, emptyQueue, threadsLoading, loaderPc,
                  loaderPromise, audioPc, returned, enqueued, ctrlPc >>
  /\ reloaded' = reloaded \cup { name \in FileNames : preloadedFiles[name].present }
  /\ UNCHANGED << destroyedBy, took, pushed, fileWrites, fullRead, readBeforeWrite,
                  sweepHeld, pendingAtEmpty, emptyPhase >>
  /\ VoiceIdle

\* a faulty variant: the rate is scaled by the new factor alone
scaledRate_ByFactor(rate, factor, oldFactor) == rate * factor

\* sampleRate *= samplerateChange, where samplerateChange is
\* float(factor) / float(oversamplingFactor), a power of two
scaledRate(rate, factor, oldFactor) == (rate * factor) \div oldFactor

setOversamplingFactor(files, size, oldFactor, factor) ==
  [name \in FileNames |->
     IF files[name].present
     THEN [files[name] EXCEPT
             !.frames = readFromFile(size + headMaxOffset(files[name], size, oldFactor),
                                     factor),
             !.sampleRate = scaledRate(@, factor, oldFactor)]
     ELSE files[name]]

SetOversamplingFactor(factor) ==
  /\ ctrlPc = "idle"
  /\ preloadedFiles' = setOversamplingFactor(preloadedFiles, preloadSize,
                                             oversamplingFactor, factor)
  /\ oversamplingFactor' = factor
  /\ UNCHANGED << preloadSize, promise, nextPromise, callerHolds,
                  promiseQueue, filledPromiseQueue, temporaryFilePromises,
                  promisesToClean, quitThread, emptyQueue, threadsLoading, loaderPc,
                  loaderPromise, audioPc, returned, enqueued, ctrlPc >>
  /\ reloaded' = reloaded \cup { name \in FileNames : preloadedFiles[name].present }
  /\ UNCHANGED << destroyedBy, took, pushed, fileWrites, fullRead, readBeforeWrite,
                  sweepHeld, pendingAtEmpty, emptyPhase >>
  /\ VoiceIdle

(***************************************************************************)
(* FilePool::getFilePromise (audio thread), in two steps: the body up to   *)
(* try_enqueue, and the return.                                            *)
(***************************************************************************)
\* a faulty variant: an object that is already in use is handed out again
makeShared_Reused(next) == 1

\* std::make_shared<FilePromise>(): a promise no one holds yet
makeShared(next) == next

\* a faulty variant: the promise is filled and enqueued whether or not the file is preloaded
foundPreloaded_Always(files, name) == TRUE

\* preloadedFiles.find(filename) != preloadedFiles.end()
foundPreloaded(files, name) == files[name].present

\* BlockingConcurrentQueue::try_enqueue on a queue of MaxVoices places
hasRoom(q) == Len(q) < MaxVoices

GetFilePromise(name) ==
  /\ audioPc = "idle"
  /\ nextPromise <= MaxPromises
  /\ LET p == makeShared(nextPromise)
         found == foundPreloaded(preloadedFiles, name)
         ok == found /\ hasRoom(promiseQueue)
     IN /\ promise' = [promise EXCEPT ![p] =
                         IF found
                         THEN [EmptyPromise EXCEPT
                                 !.filename = name,
                                 !.preloadedData = preloadedFiles[name].frames,
                                 !.sampleRate = preloadedFiles[name].sampleRate,
                                 !.oversamplingFactor = oversamplingFactor]
                         ELSE EmptyPromise]
        /\ promiseQueue' = IF ok THEN Append(promiseQueue, p) ELSE promiseQueue
        /\ callerHolds' = callerHolds \cup {p}
        /\ returned' = p
        /\ enqueued' = ok
  /\ nextPromise' = nextPromise + 1
  /\ audioPc' = "getFilePromise"
  /\ emptyPhase' = CASE emptyPhase = "running" -> "none"
                     [] emptyPhase = "returned" -> "after"
                     [] OTHER -> emptyPhase
  /\ pendingAtEmpty' = IF emptyPhase = "running" THEN {} ELSE pendingAtEmpty
  /\ UNCHANGED << preloadedFiles, preloadSize, oversamplingFactor, filledPromiseQueue,
                  temporaryFilePromises, promisesToClean, quitThread, emptyQueue,
                  threadsLoading, loaderPc, loaderPromise, ctrlPc >>
  /\ UNCHANGED << destroyedBy, took, pushed, fileWrites, fullRead, readBeforeWrite,
                  sweepHeld, reloaded >>
  /\ VoiceIdle

GetFilePromiseReturn ==
  /\ audioPc = "getFilePromise"
  /\ audioPc' = "idle"
  /\ returned' = nullptr
  /\ enqueued' = FALSE
  /\ UNCHANGED << preloadedFiles, preloadSize, oversamplingFactor, promise, nextPromise,
                  callerHolds, promiseQueue, filledPromiseQueue, temporaryFilePromises,
                  promisesToClean, quitThread, emptyQueue, threadsLoading, loaderPc,
                  loaderPromise, ctrlPc >>
  /\ UNCHANGED poolHistory
  /\ VoiceIdle

(***************************************************************************)
(* The caller of getFilePromise (audio thread): it drops its promise, or   *)
(* reads the sample through it: the full file once dataReady is seen, the  *)
(* preload head before.                                                    *)
(***************************************************************************)
DropPromise(p) ==
  /\ audioPc = "idle"
  /\ p \in callerHolds
  /\ callerHolds' = callerHolds \ {p}
  /\ UNCHANGED << preloadedFiles, preloadSize, oversamplingFactor, promise, nextPromise,
                  promiseQueue, filledPromiseQueue, temporaryFilePromises,
                  promisesToClean, quitThread, emptyQueue, threadsLoading, loaderPc,
                  loaderPromise, audioPc, returned, enqueued, ctrlPc >>
  /\ Destroyed("caller")
  /\ UNCHANGED << took, pushed, fileWrites, fullRead, readBeforeWrite, sweepHeld,
                  pendingAtEmpty, emptyPhase, reloaded >>
  /\ VoiceIdle

ReadPromise(p) ==
  /\ audioPc = "idle"
  /\ p \in callerHolds
  /\ promise[p].dataReady
  /\ fullRead' = TRUE
  /\ readBeforeWrite' = (readBeforeWrite \/ promise[p].fileData = nullptr)
  /\ UNCHANGED poolVars
  /\ UNCHANGED << destroyedBy, took, pushed, fileWrites, sweepHeld, pendingAtEmpty,
                  emptyPhase, reloaded >>
  /\ VoiceIdle

(***************************************************************************)
(* FilePool::cleanupPromises (audio thread), in two steps: the body (the   *)
(* filled queue is drained into temporaryFilePromises, which is then       *)
(* swept), and the return.                                                 *)
(***************************************************************************)
Swap(q, i, j) == [q EXCEPT ![i] = q[j], ![j] = q[i]]
PopBack(q) == SubSeq(q, 1, Len(q) - 1)

\* use_count() of a promise while the sweep runs (the filled queue is empty then)
sweepUseCount(p, temporary, toClean) ==
  UseCount(p, callerHolds, promiseQueue, << >>, loaderPromise, temporary, toClean)

\* a faulty variant: the iterator moves on after a removal, past the entry swapped in
RECURSIVE sweep_SkipsSwapped(_, _, _, _)
sweep_SkipsSwapped(temporary, toClean, it, sentinel) ==
  CHOOSE r \in
    { IF it > Len(t) THEN [temporary |-> t, toClean |-> c]
      ELSE IF sweepUseCount(t[it], t, c) = 1
           THEN sweep_SkipsSwapped(PopBack(Swap(t, it, Len(t))), Append(c, t[it]),
                                   it + 1, sentinel - 1)
           ELSE sweep_SkipsSwapped(t, c, it + 1, sentinel)
      : t \in {temporary}, c \in {toClean} } : TRUE

\* a faulty variant: an unreferenced entry is erased on the spot
RECURSIVE sweep_Erases(_, _, _, _)
sweep_Erases(temporary, toClean, it, sentinel) ==
  CHOOSE r \in
    { IF it > Len(t) THEN [temporary |-> t, toClean |-> c]
      ELSE IF sweepUseCount(t[it], t, c) = 1
           THEN sweep_Erases(PopBack(Swap(t, it, sentinel)), c, it, sentinel - 1)
           ELSE sweep_Erases(t, c, it + 1, sentinel)
      : t \in {temporary}, c \in {toClean} } : TRUE

\* the loop over temporaryFilePromises, from promiseIterator `it` with the
\* last entry at `sentinel`
RECURSIVE sweep(_, _, _, _)
sweep(temporary, toClean, it, sentinel) ==
  CHOOSE r \in
    { IF it > Len(t) THEN [temporary |-> t, toClean |-> c]
      ELSE IF sweepUseCount(t[it], t, c) = 1
           THEN sweep(PopBack(Swap(t, it, sentinel)), Append(c, t[it]), it, sentinel - 1)
           ELSE sweep(t, c, it + 1, sentinel)
      : t \in {temporary}, c \in {toClean} } : TRUE

CleanupPromises ==
  /\ audioPc = "idle"
  /\ LET drained == temporaryFilePromises \o filledPromiseQueue
         swept == sweep(drained, promisesToClean, 1, Len(drained))
     IN /\ filledPromiseQueue' = << >>
        /\ temporaryFilePromises' = swept.temporary
        /\ promisesToClean' = swept.toClean
        /\ sweepHeld' = { p \in Range(drained) : \E l \in LoaderThreads : loaderPromise[l] = p }
  /\ audioPc' = "cleanupPromises"
  /\ UNCHANGED << preloadedFiles, preloadSize, oversamplingFactor, promise, nextPromise,
                  callerHolds, promiseQueue, quitThread, emptyQueue, threadsLoading,
                  loaderPc, loaderPromise, returned, enqueued, ctrlPc >>
  /\ Destroyed("cleanupPromises")
  /\ UNCHANGED << took, pushed, fileWrites, fullRead, readBeforeWrite, pendingAtEmpty,
                  emptyPhase, reloaded >>
  /\ VoiceIdle

CleanupPromisesReturn ==
  /\ audioPc = "cleanupPromises"
  /\ audioPc' = "idle"
  /\ sweepHeld' = {}
  /\ UNCHANGED << preloadedFiles, preloadSize, oversamplingFactor, promise, nextPromise,
                  callerHolds, promiseQueue, filledPromiseQueue, temporaryFilePromises,
                  promisesToClean, quitThread, emptyQueue, threadsLoading, loaderPc,
                  loaderPromise, returned, enqueued, ctrlPc >>
  /\ UNCHANGED << destroyedBy, took, pushed, fileWrites, fullRead, readBeforeWrite,
                  pendingAtEmpty, emptyPhase, reloaded >>
  /\ VoiceIdle

(***************************************************************************)
(* FilePool::loadingThread, one step per access to shared state.           *)
(* Each access to a queue, a vector or a flag is taken as atomic: the      *)
(* unsynchronised accesses of the code to promisesToClean, quitThread and  *)
(* emptyQueue are interleaved here, not torn.                              *)
(*   top     the loop condition, promisesToClean.clear(), the emptyQueue   *)
(*           test                                                          *)
(*   drain   one try_dequeue of the emptying loop                          *)
(*   drained emptyQueue = false                                            *)
(*   wait    wait_dequeue_timed                                            *)
(*   check   promise.use_count() != 1, threadsLoading++                    *)
(*   open    the file is opened and decoded into fileData                  *)
(*   ready   dataReady = true, threadsLoading--                            *)
(*   push    filledPromiseQueue.try_enqueue                                *)
(*   sleep   sleep_for(1ms) after a push that failed, before the next try  *)
(*   reset   promise.reset()                                               *)
(***************************************************************************)
LoaderTop(l) ==
  /\ loaderPc[l] = "top"
  /\ IF quitThread
     THEN /\ loaderPc' = [loaderPc EXCEPT ![l] = "done"]
          /\ UNCHANGED promisesToClean
     ELSE /\ promisesToClean' = << >>
          /\ loaderPc' = [loaderPc EXCEPT ![l] = IF emptyQueue THEN "drain" ELSE "wait"]
  /\ UNCHANGED << preloadedFiles, preloadSize, oversamplingFactor, promise, nextPromise,
                  callerHolds, promiseQueue, filledPromiseQueue, temporaryFilePromises,
                  quitThread, emptyQueue, threadsLoading, loaderPromise, audioPc,
                  returned, enqueued, ctrlPc >>
  /\ Destroyed("loader:promisesToClean")
  /\ UNCHANGED << took, pushed, fileWrites, fullRead, readBeforeWrite, sweepHeld,
                  pendingAtEmpty, emptyPhase, reloaded >>
  /\ VoiceIdle

LoaderDrain(l) ==
  /\ loaderPc[l] = "drain"
  /\ IF promiseQueue # << >>
     THEN /\ loaderPromise' = [loaderPromise EXCEPT ![l] = Head(promiseQueue)]
          /\ promiseQueue' = Tail(promiseQueue)
          /\ took' = [took EXCEPT ![Head(promiseQueue)] = "drained"]
          /\ UNCHANGED loaderPc
     ELSE /\ loaderPc' = [loaderPc EXCEPT ![l] = "drained"]
          /\ UNCHANGED << loaderPromise, promiseQueue, took >>
  /\ UNCHANGED << preloadedFiles, preloadSize, oversamplingFactor, promise, nextPromise,
                  callerHolds, filledPromiseQueue, temporaryFilePromises,
                  promisesToClean, quitThread, emptyQueue, threadsLoading, audioPc,
                  returned, enqueued, ctrlPc >>
  /\ Destroyed("loader:dequeue")
  /\ UNCHANGED << pushed, fileWrites, fullRead, readBeforeWrite, sweepHeld,
                  pendingAtEmpty, emptyPhase, reloaded >>
  /\ VoiceIdle

LoaderDrained(l) ==
  /\ loaderPc[l] = "drained"
  /\ emptyQueue' = FALSE
  /\ loaderPc' = [loaderPc EXCEPT ![l] = "top"]
  /\ UNCHANGED << preloadedFiles, preloadSize, oversamplingFactor, promise, nextPromise,
                  callerHolds, promiseQueue, filledPromiseQueue, temporaryFilePromises,
                  promisesToClean, quitThread, threadsLoading, loaderPromise, audioPc,
                  returned, enqueued, ctrlPc >>
  /\ UNCHANGED poolHistory
  /\ VoiceIdle

LoaderWait(l) ==
  /\ loaderPc[l] = "wait"
  /\ IF promiseQueue # << >>
     THEN /\ loaderPromise' = [loaderPromise EXCEPT ![l] = Head(promiseQueue)]
          /\ promiseQueue' = Tail(promiseQueue)
          /\ loaderPc' = [loaderPc EXCEPT ![l] = "check"]
     ELSE /\ loaderPc' = [loaderPc EXCEPT ![l] = "top"]
          /\ UNCHANGED << loaderPromise, promiseQueue >>
  /\ UNCHANGED << preloadedFiles, preloadSize, oversamplingFactor, promise, nextPromise,
                  callerHolds, filledPromiseQueue, temporaryFilePromises,
                  promisesToClean, quitThread, emptyQueue, threadsLoading, audioPc,
                  returned, enqueued, ctrlPc >>
  /\ Destroyed("loader:dequeue")
  /\ UNCHANGED << took, pushed, fileWrites, fullRead, readBeforeWrite, sweepHeld,
                  pendingAtEmpty, emptyPhase, reloaded >>
  /\ VoiceIdle

LoaderCheck(l) ==
  /\ loaderPc[l] = "check"
  /\ IF use_count(loaderPromise[l]) # 1
     THEN /\ threadsLoading' = threadsLoading + 1
          /\ loaderPc' = [loaderPc EXCEPT ![l] = "open"]
          /\ took' = [took EXCEPT ![loaderPromise[l]] = "held"]
     ELSE /\ loaderPc' = [loaderPc EXCEPT ![l] = "push"]
          /\ took' = [took EXCEPT ![loaderPromise[l]] = "abandoned"]
          /\ UNCHANGED threadsLoading
  /\ UNCHANGED << preloadedFiles, preloadSize, oversamplingFactor, promise, nextPromise,
                  callerHolds, promiseQueue, filledPromiseQueue, temporaryFilePromises,
                  promisesToClean, quitThread, emptyQueue, loaderPromise, audioPc,
                  returned, enqueued, ctrlPc >>
  /\ UNCHANGED << destroyedBy, pushed, fileWrites, fullRead, readBeforeWrite, sweepHeld,
                  pendingAtEmpty, emptyPhase, reloaded >>
  /\ VoiceIdle

\* a faulty variant: the flag is raised where the buffer should be written
afterDecode_FlagOnly(pr, frames) == [pr EXCEPT !.dataReady = TRUE]

\* promise->fileData = readFromFile(sndFile, frames, oversamplingFactor)
afterDecode(pr, frames) == [pr EXCEPT !.fileData = frames]

\* promise->dataReady = true
afterReady(pr) == [pr EXCEPT !.dataReady = TRUE]

\* canOpen: the promise names a file that is on the disk
canOpen(pr) == pr.filename \in FileNames /\ Disk[pr.filename].exists

\* error: sndFile.error() != 0 although the file is there (it cannot be read)
LoaderOpen(l, error) ==
  /\ loaderPc[l] = "open"
  /\ IF error \/ ~canOpen(promise[loaderPromise[l]])
     THEN /\ loaderPc' = [loaderPc EXCEPT ![l] = "top"]
          /\ UNCHANGED << promise, fileWrites >>
     ELSE LET p == loaderPromise[l]
              frames == Disk[promise[p].filename].frames
          IN /\ promise' = [promise EXCEPT ![p] =
                              afterDecode(@, readFromFile(frames, oversamplingFactor))]
             /\ fileWrites' = [fileWrites EXCEPT ![p] = @ + 1]
             /\ loaderPc' = [loaderPc EXCEPT ![l] = "ready"]
  /\ UNCHANGED << preloadedFiles, preloadSize, oversamplingFactor, nextPromise,
                  callerHolds, promiseQueue, filledPromiseQueue, temporaryFilePromises,
                  promisesToClean, quitThread, emptyQueue, threadsLoading,
                  loaderPromise, audioPc, returned, enqueued, ctrlPc >>
  /\ UNCHANGED << destroyedBy, took, pushed, fullRead, readBeforeWrite, sweepHeld,
                  pendingAtEmpty, emptyPhase, reloaded >>
  /\ VoiceIdle

LoaderReady(l) ==
  /\ loaderPc[l] = "ready"
  /\ promise' = [promise EXCEPT ![loaderPromise[l]] = afterReady(@)]
  /\ threadsLoading' = threadsLoading - 1
  /\ loaderPc' = [loaderPc EXCEPT ![l] = "push"]
  /\ UNCHANGED << preloadedFiles, preloadSize, oversamplingFactor, nextPromise,
                  callerHolds, promiseQueue, filledPromiseQueue, temporaryFilePromises,
                  promisesToClean, quitThread, emptyQueue, loaderPromise, audioPc,
                  returned, enqueued, ctrlPc >>
  /\ UNCHANGED poolHistory
  /\ VoiceIdle

LoaderPush(l) ==
  /\ loaderPc[l] = "push"
  /\ IF hasRoom(filledPromiseQueue)
     THEN /\ filledPromiseQueue' = Append(filledPromiseQueue, loaderPromise[l])
          /\ pushed' = pushed \cup {loaderPromise[l]}
          /\ loaderPc' = [loaderPc EXCEPT ![l] = "reset"]
     ELSE /\ loaderPc' = [loaderPc EXCEPT ![l] = "sleep"]
          /\ UNCHANGED << filledPromiseQueue, pushed >>
  /\ UNCHANGED << preloadedFiles, preloadSize, oversamplingFactor, promise, nextPromise,
                  callerHolds, promiseQueue, temporaryFilePromises, promisesToClean,
                  quitThread, emptyQueue, threadsLoading, loaderPromise, audioPc,
                  returned, enqueued, ctrlPc >>
  /\ UNCHANGED << destroyedBy, took, fileWrites, fullRead, readBeforeWrite, sweepHeld,
                  pendingAtEmpty, emptyPhase, reloaded >>
  /\ VoiceIdle

\* std::this_thread::sleep_for(1ms) in the body of the push loop
LoaderSleep(l) ==
  /\ loaderPc[l] = "sleep"
  /\ loaderPc' = [loaderPc EXCEPT ![l] = "push"]
  /\ UNCHANGED << preloadedFiles, preloadSize, oversamplingFactor, promise, nextPromise,
                  callerHolds, promiseQueue, filledPromiseQueue, temporaryFilePromises,
                  promisesToClean, quitThread, emptyQueue, threadsLoading, loaderPromise,
                  audioPc, returned, enqueued, ctrlPc >>
  /\ UNCHANGED poolHistory
  /\ VoiceIdle

LoaderReset(l) ==
  /\ loaderPc[l] = "reset"
  /\ loaderPromise' = [loaderPromise EXCEPT ![l] = nullptr]
  /\ loaderPc' = [loaderPc EXCEPT ![l] = "top"]
  /\ UNCHANGED << preloadedFiles, preloadSize, oversamplingFactor, promise, nextPromise,
                  callerHolds, promiseQueue, filledPromiseQueue, temporaryFilePromises,
                  promisesToClean, quitThread, emptyQueue, threadsLoading, audioPc,
                  returned, enqueued, ctrlPc >>
  /\ Destroyed("loader:reset")
  /\ UNCHANGED << took, pushed, fileWrites, fullRead, readBeforeWrite, sweepHeld,
                  pendingAtEmpty, emptyPhase, reloaded >>
  /\ VoiceIdle

(***************************************************************************)
(* FilePool::emptyFileLoadingQueues and FilePool::clear (control thread):  *)
(* the flag is raised, then the caller spins until a loader lowers it.     *)
(***************************************************************************)
EmptyFileLoadingQueues ==
  /\ ctrlPc = "idle"
  /\ emptyQueue' = TRUE
  /\ ctrlPc' = "emptyFileLoadingQueues"
  /\ pendingAtEmpty' = Range(promiseQueue)
  /\ emptyPhase' = IF audioPc = "getFilePromise" THEN "none" ELSE "running"
  /\ UNCHANGED << preloadedFiles, preloadSize, oversamplingFactor, promise, nextPromise,
                  callerHolds, promiseQueue, filledPromiseQueue, temporaryFilePromises,
                  promisesToClean, quitThread, threadsLoading, loaderPc, loaderPromise,
                  audioPc, returned, enqueued >>
  /\ UNCHANGED << destroyedBy, took, pushed, fileWrites, fullRead, readBeforeWrite,
                  sweepHeld, reloaded >>
  /\ VoiceIdle

EmptyFileLoadingQueuesReturn ==
  /\ ctrlPc = "emptyFileLoadingQueues"
  /\ ~emptyQueue
  /\ ctrlPc' = "idle"
  /\ emptyPhase' = IF emptyPhase = "running" THEN "returned" ELSE emptyPhase
  /\ UNCHANGED << preloadedFiles, preloadSize, oversamplingFactor, promise, nextPromise,
                  callerHolds, promiseQueue, filledPromiseQueue, temporaryFilePromises,
                  promisesToClean, quitThread, emptyQueue, threadsLoading, loaderPc,
                  loaderPromise, audioPc, returned, enqueued >>
  /\ UNCHANGED << destroyedBy, took, pushed, fileWrites, fullRead, readBeforeWrite,
                  sweepHeld, pendingAtEmpty, reloaded >>
  /\ VoiceIdle

Clear ==
  /\ ctrlPc = "idle"
  /\ emptyQueue' = TRUE
  /\ ctrlPc' = "clear"
  /\ pendingAtEmpty' = Range(promiseQueue)
  /\ emptyPhase' = IF audioPc = "getFilePromise" THEN "none" ELSE "running"
  /\ UNCHANGED << preloadedFiles, preloadSize, oversamplingFactor, promise, nextPromise,
                  callerHolds, promiseQueue, filledPromiseQueue, temporaryFilePromises,
                  promisesToClean, quitThread, threadsLoading, loaderPc, loaderPromise,
                  audioPc, returned, enqueued >>
  /\ UNCHANGED << destroyedBy, took, pushed, fileWrites, fullRead, readBeforeWrite,
                  sweepHeld, reloaded >>
  /\ VoiceIdle

ClearFinish ==
  /\ ctrlPc = "clear"
  /\ ~emptyQueue
  /\ preloadedFiles' = [name \in FileNames |-> NoHandle]
  /\ temporaryFilePromises' = << >>
  /\ promisesToClean' = << >>
  /\ ctrlPc' = "idle"
  /\ emptyPhase' = IF emptyPhase = "running" THEN "returned" ELSE emptyPhase
  /\ UNCHANGED << preloadSize, oversamplingFactor, promise, nextPromise, callerHolds,
                  promiseQueue, filledPromiseQueue, quitThread, emptyQueue,
                  threadsLoading, loaderPc, loaderPromise, audioPc, returned, enqueued >>
  /\ Destroyed("clear")
  /\ reloaded' = {}
  /\ UNCHANGED << took, pushed, fileWrites, fullRead, readBeforeWrite, sweepHeld,
                  pendingAtEmpty >>
  /\ VoiceIdle

(***************************************************************************)
(* FilePool::waitForBackgroundLoading (control thread): it spins until the *)
(* pending queue is empty, then until no loader counts as loading.         *)
(***************************************************************************)
WaitForBackgroundLoading ==
  /\ ctrlPc = "idle"
  /\ ctrlPc' = "waitForBackgroundLoading.queue"
  /\ UNCHANGED << preloadedFiles, preloadSize, oversamplingFactor, promise, nextPromise,
                  callerHolds, promiseQueue, filledPromiseQueue, temporaryFilePromises,
                  promisesToClean, quitThread, emptyQueue, threadsLoading, loaderPc,
                  loaderPromise, audioPc, returned, enqueued >>
  /\ UNCHANGED poolHistory
  /\ VoiceIdle

\* while (promiseQueue.size_approx() > 0) has ended
WaitQueueEmpty ==
  /\ ctrlPc = "waitForBackgroundLoading.queue"
  /\ promiseQueue = << >>
  /\ ctrlPc' = "waitForBackgroundLoading.threads"
  /\ UNCHANGED << preloadedFiles, preloadSize, oversamplingFactor, promise, nextPromise,
                  callerHolds, promiseQueue, filledPromiseQueue, temporaryFilePromises,
                  promisesToClean, quitThread, emptyQueue, threadsLoading, loaderPc,
                  loaderPromise, audioPc, returned, enqueued >>
  /\ UNCHANGED poolHistory
  /\ VoiceIdle

\* while (threadsLoading > 0) has ended, and the call returns
WaitThreadsDone ==
  /\ ctrlPc = "waitForBackgroundLoading.threads"
  /\ ~(threadsLoading > 0)
  /\ ctrlPc' = "idle"
  /\ UNCHANGED << preloadedFiles, preloadSize, oversamplingFactor, promise, nextPromise,
                  callerHolds, promiseQueue, filledPromiseQueue, temporaryFilePromises,
                  promisesToClean, quitThread, emptyQueue, threadsLoading, loaderPc,
                  loaderPromise, audioPc, returned, enqueued >>
  /\ UNCHANGED poolHistory
  /\ VoiceIdle

(***************************************************************************)
(* The three kinds of thread run in any interleaving.                      *)
(***************************************************************************)
PoolNext ==
  \/ \E name \in FileNames : PreloadFile(name, 0)
  \/ \E name \in FileNames : GetFilePromise(name)
  \/ GetFilePromiseReturn
  \/ \E p \in PromiseIds : DropPromise(p)
  \/ \E p \in PromiseIds : ReadPromise(p)
  \/ CleanupPromises
  \/ CleanupPromisesReturn
  \/ \E l \in Loaders : LoaderTop(l)
  \/ \E l \in Loaders : LoaderDrain(l)
  \/ \E l \in Loaders : LoaderDrained(l)
  \/ \E l \in Loaders : LoaderWait(l)
  \/ \E l \in Loaders : LoaderCheck(l)
  \/ \E l \in Loaders, error \in BOOLEAN : LoaderOpen(l, error)
  \/ \E l \in Loaders : LoaderReady(l)
  \/ \E l \in Loaders : LoaderPush(l)
  \/ \E l \in Loaders : LoaderSleep(l)
  \/ \E l \in Loaders : LoaderReset(l)
  \/ EmptyFileLoadingQueues
  \/ EmptyFileLoadingQueuesReturn
  \/ Clear
  \/ ClearFinish

(***************************************************************************)
(* FilePool::~FilePool: the quit flag is raised, then every loader is      *)
(* joined.  No other method runs on a pool that is being destroyed.        *)
(***************************************************************************)
Destructor ==
  /\ ctrlPc = "idle"
  /\ audioPc = "idle"
  /\ ~quitThread
  /\ quitThread' = TRUE
  /\ ctrlPc' = "~FilePool"
  /\ UNCHANGED << preloadedFiles, preloadSize, oversamplingFactor, promise, nextPromise,
                  callerHolds, promiseQueue, filledPromiseQueue, temporaryFilePromises,
                  promisesToClean, emptyQueue, threadsLoading, loaderPc, loaderPromise,
                  audioPc, returned, enqueued >>
  /\ UNCHANGED poolHistory
  /\ VoiceIdle

\* thread.join() has returned for every loader
DestructorJoined ==
  /\ ctrlPc = "~FilePool"
  /\ \A l \in Loaders : loaderPc[l] = "done"
  /\ ctrlPc' = "joined"
  /\ UNCHANGED << preloadedFiles, preloadSize, oversamplingFactor, promise, nextPromise,
                  callerHolds, promiseQueue, filledPromiseQueue, temporaryFilePromises,
                  promisesToClean, quitThread, emptyQueue, threadsLoading, loaderPc,
                  loaderPromise, audioPc, returned, enqueued >>
  /\ UNCHANGED poolHistory
  /\ VoiceIdle

\* one step of loader l, wherever it is in loadingThread
LoaderStep(l) ==
  \/ LoaderTop(l)
  \/ LoaderDrain(l)
  \/ LoaderDrained(l)
  \/ LoaderWait(l)
  \/ LoaderCheck(l)
  \/ \E error \in BOOLEAN : LoaderOpen(l, error)
  \/ LoaderReady(l)
  \/ LoaderPush(l)
  \/ LoaderSleep(l)
  \/ LoaderReset(l)

\* the pool up to and through its destruction
PoolQuitNext ==
  \/ ~quitThread /\ PoolNext
  \/ Destructor
  \/ quitThread /\ \E l \in Loaders : LoaderStep(l)
  \/ DestructorJoined

(***************************************************************************)
(* The calls the audio thread makes on one voice.                          *)
(***************************************************************************)
Tickets == 0..1
PoolIdle == UNCHANGED << poolVars, poolHistory, dataVars >>

VoiceNext ==
  \/ \E r \in RegionIds, delay \in Delays, type \in TriggerTypes, pitch \in PitchRatios :
       StartVoice(r, delay, 1, 60, type, pitch) /\ PoolIdle
  \/ \E delay \in Delays : Release(delay) /\ PoolIdle
  \/ \E delay \in Delays, channel \in Channels, number \in Notes, sustain \in CCValues :
       RegisterNoteOff(delay, channel, number, sustain) /\ PoolIdle
  \/ \E delay \in Delays, cc \in CCNumbers, value \in CCValues :
       RegisterCC(delay, cc, value) /\ PoolIdle
  \/ \E delay \in Delays, group \in Groups : CheckOffGroup(delay, group) /\ PoolIdle
  \/ \E n \in BlockLens : RenderBlock(n) /\ PoolIdle
  \/ Reset /\ PoolIdle

\* the delivery of the full file to the voice
VoiceDataNext ==
  \/ \E t \in Tickets : ExpectFileData(t) /\ PoolIdle
  \/ \E t \in Tickets : SetFileData(FullFileFrames, t) /\ PoolIdle
  \/ GarbageCollect /\ PoolIdle

(***************************************************************************)
(* Buffer<Type, Alignment>: a resizable block of elements whose data       *)
(* pointer is aligned and whose aligned end may be read by vector code.    *)
(* Pointers are byte addresses; an element pointer p + k is p + k*sizeof.  *)
(***************************************************************************)
ProgramIdle == UNCHANGED << voiceVars, poolVars, poolHistory >>

RECURSIVE BitAnd(_, _)
BitAnd(a, b) ==
  IF a = 0 \/ b = 0 THEN 0
  ELSE (a % 2) * (b % 2) + 2 * BitAnd(a \div 2, b \div 2)

AlignmentMask(t) == t.alignment - 1
TypeAlignment(t) == t.alignment \div t.sizeof
TypeAlignmentMask(t) == TypeAlignment(t) - 1

\* the instantiations the static_asserts accept, for the arithmetic types
ElementSizes == {1, 2, 4, 8, 16}
Alignments == {4, 8, 16}
BufferTypes ==
  { t \in [sizeof : ElementSizes, alignment : Alignments] :
      TypeAlignment(t) * t.sizeof = t.alignment }

\* the addresses malloc and realloc may return, far enough apart for a block
HeapAddresses == {1024, 2056}
BufferSizes == {0, 1, 2, 3, 4, 5, 8, 16}

DefaultBuffer ==
  [largerSize |-> 0, alignedSize |-> 0, normalData |-> nullptr,
   paddedData |-> nullptr, normalEnd |-> nullptr, alignedEnd |-> nullptr]

isLive(h, p) == \E b \in h : b.addr = p
\* free(p) of a live block; free(nullptr) does nothing
stdFree(h, p) == { b \in h : b.addr # p }
\* p is neither null nor allocated: free(p) and realloc(p, n) are undefined
stale(h, p) == p # nullptr /\ ~isLive(h, p)

\* std::align: the first address >= ptr that is a multiple of alignment, or
\* nullptr when size bytes do not fit in the space bytes that follow ptr
stdAlign(alignment, size, ptr, space) ==
  LET aligned == ((ptr + alignment - 1) \div alignment) * alignment
  IN IF space < size \/ aligned - ptr > space - size THEN nullptr ELSE aligned

\* Buffer::clear, on the fields
clear(b) ==
  [b EXCEPT !.largerSize = 0, !.alignedSize = 0, !.normalData = nullptr,
            !.normalEnd = nullptr, !.alignedEnd = nullptr]

tempSizeOf_NoLeeway(t, newSize) == newSize
tempSizeOf(t, newSize) == newSize + 2 * AlignmentMask(t)

\* where the aligned end is put, in elements after normalEnd
endPadding(t, alignedSize) ==
  LET endMisalignment == BitAnd(alignedSize, TypeAlignmentMask(t))
  IN IF endMisalignment # 0 THEN t.alignment - endMisalignment ELSE 0

\* what a failed allocation leaves of the buffer
allocationFailed_Clears(b) == clear(b)
allocationFailed(b) == b

\* Buffer::resize with the allocator answering newData: the fields, the heap,
\* the value returned and the misuse of the allocator, if any
resize(t, b, h, newSize, newData) ==
  IF newSize = 0
  THEN [buffer |-> clear(b), heap |-> stdFree(h, b.paddedData), returned |-> TRUE,
        fault |-> IF stale(h, b.paddedData) THEN "double free" ELSE "none"]
  ELSE
    LET tempSize == tempSizeOf(t, newSize)
        fault == IF stale(h, b.paddedData) THEN "realloc of a freed block" ELSE "none"
    IN IF newData = nullptr
       THEN [buffer |-> allocationFailed(b), heap |-> h, returned |-> FALSE, fault |-> fault]
       ELSE
         LET normalData == stdAlign(t.alignment, newSize, newData, tempSize)
             normalEnd == normalData + newSize * t.sizeof
         IN [buffer |->
               [largerSize |-> tempSize, alignedSize |-> newSize,
                paddedData |-> newData, normalData |-> normalData,
                normalEnd |-> normalEnd,
                alignedEnd |-> normalEnd + endPadding(t, newSize) * t.sizeof],
             heap |-> stdFree(h, b.paddedData)
                        \cup {[addr |-> newData, bytes |-> tempSize * t.sizeof]},
             returned |-> TRUE, fault |-> fault]

\* the allocator may answer newData to resize: null, the block itself grown
\* or shrunk in place, or a block that is not allocated
mayAnswer(b, h, newData) ==
  newData = nullptr \/ newData = b.paddedData \/ ~isLive(h, newData)

firstFault(fault) == IF heapFault = "none" THEN fault ELSE heapFault
bufferAlive == bufferCall.name \notin {"destroyed", "crashed"}

\* no Buffer object is in use: the last one was destroyed, or never resized
noBuffer ==
  \/ bufferCall.name = "destroyed"
  \/ bufferCall.name = "Buffer" /\ buffer = DefaultBuffer

BufferInit ==
  /\ bufferType = [sizeof |-> 4, alignment |-> 16]
  /\ buffer = DefaultBuffer
  /\ heap = {}
  /\ bufferCall = [name |-> "Buffer", newSize |-> 0, returned |-> TRUE, sizeBefore |-> 0]
  /\ heapFault = "none"

\* the allocator aborts the process on a misuse it detects
BufferCrash(fault) ==
  /\ bufferCall' = [bufferCall EXCEPT !.name = "crashed"]
  /\ heapFault' = firstFault(fault)
  /\ UNCHANGED << bufferType, buffer, heap >>

\* Buffer(): an empty buffer of the instantiation t
BufferConstruct(t) ==
  /\ noBuffer
  /\ bufferType' = t
  /\ buffer' = DefaultBuffer
  /\ bufferCall' = [name |-> "Buffer", newSize |-> 0, returned |-> TRUE, sizeBefore |-> 0]
  /\ UNCHANGED << heap, heapFault, audioSpan, spanCall >>
  /\ ProgramIdle

\* Buffer(size): the default fields, then resize(size)
BufferConstructSized(t, size, newData) ==
  /\ noBuffer
  /\ mayAnswer(DefaultBuffer, heap, newData)
  /\ LET res == resize(t, DefaultBuffer, heap, size, newData)
     IN /\ bufferType' = t
        /\ buffer' = res.buffer
        /\ heap' = res.heap
        /\ bufferCall' = [name |-> "Buffer", newSize |-> size,
                          returned |-> res.returned, sizeBefore |-> 0]
  /\ UNCHANGED << heapFault, audioSpan, spanCall >>
  /\ ProgramIdle

BufferResize(newSize, newData, aborts) ==
  /\ bufferAlive
  /\ mayAnswer(buffer, heap, newData)
  /\ LET res == resize(bufferType, buffer, heap, newSize, newData)
     IN IF res.fault # "none" /\ aborts
        THEN BufferCrash(res.fault)
        ELSE /\ buffer' = res.buffer
             /\ heap' = res.heap
             /\ bufferCall' = [name |-> "resize", newSize |-> newSize,
                               returned |-> res.returned,
                               sizeBefore |-> buffer.alignedSize]
             /\ heapFault' = firstFault(res.fault)
             /\ UNCHANGED bufferType
  /\ UNCHANGED << audioSpan, spanCall >>
  /\ ProgramIdle

BufferClear(aborts) ==
  /\ bufferAlive
  /\ IF stale(heap, buffer.paddedData) /\ aborts
     THEN BufferCrash("double free")
     ELSE /\ buffer' = clear(buffer)
          /\ heap' = stdFree(heap, buffer.paddedData)
          /\ bufferCall' = [name |-> "clear", newSize |-> 0, returned |-> TRUE,
                            sizeBefore |-> buffer.alignedSize]
          /\ heapFault' = IF stale(heap, buffer.paddedData)
                          THEN firstFault("double free") ELSE heapFault
          /\ UNCHANGED bufferType
  /\ UNCHANGED << audioSpan, spanCall >>
  /\ ProgramIdle

\* ~Buffer
BufferDestroy(aborts) ==
  /\ bufferAlive
  /\ IF stale(heap, buffer.paddedData) /\ aborts
     THEN BufferCrash("double free")
     ELSE /\ heap' = stdFree(heap, buffer.paddedData)
          /\ bufferCall' = [name |-> "destroyed", newSize |-> 0, returned |-> TRUE,
                            sizeBefore |-> buffer.alignedSize]
          /\ heapFault' = IF stale(heap, buffer.paddedData)
                          THEN firstFault("double free") ELSE heapFault
          /\ UNCHANGED << bufferType, buffer >>
  /\ UNCHANGED << audioSpan, spanCall >>
  /\ ProgramIdle

(***************************************************************************)
(* AudioSpan<Type, MaxChannels>: a view of up to MaxChannels channels of   *)
(* numFrames frames each.                                                  *)
(***************************************************************************)
MaxChannels == 2
MaxSpanLen == 9
SpanLens == 0..MaxSpanLen
SpanLists == UNION { [1..n -> SpanLens] : n \in 0..MaxChannels }

\* the members' default initializers
DefaultAudioSpan == [numFrames |-> 0, numChannels |-> 0]

\* absl::Span::npos, the largest size_type (here the largest integer)
npos == 2147483647
\* the local `size` at the end of the loop of the constructor from spans
RECURSIVE minSize(_)
minSize(lens) ==
  IF lens = << >> THEN npos ELSE Min(minSize(Tail(lens)), Head(lens))

SpanInit ==
  /\ audioSpan = DefaultAudioSpan
  /\ spanCall = [name |-> "AudioSpan", lens |-> << >>, size |-> 0]

\* AudioSpan(std::initializer_list<Type*> spans, size_type numFrames)
AudioSpanFromPointers(channels, numFrames) ==
  /\ audioSpan' = [numFrames |-> numFrames, numChannels |-> channels]
  /\ spanCall' = [name |-> "pointers", lens |-> [c \in 1..channels |-> numFrames],
                  size |-> numFrames]
  /\ UNCHANGED << bufferType, buffer, heap, bufferCall, heapFault >>
  /\ ProgramIdle

\* AudioSpan(std::initializer_list<absl::Span<Type>> spans): the member
\* initializer list names numChannels only, and the body computes `size`
AudioSpanFromSpans(lens) ==
  /\ audioSpan' = [DefaultAudioSpan EXCEPT !.numChannels = Len(lens)]
  /\ spanCall' = [name |-> "spans", lens |-> lens, size |-> minSize(lens)]
  /\ UNCHANGED << bufferType, buffer, heap, bufferCall, heapFault >>
  /\ ProgramIdle

DataInit == BufferInit /\ SpanInit

BufferNext ==
  \/ \E t \in BufferTypes : BufferConstruct(t)
  \/ \E t \in BufferTypes, size \in BufferSizes, newData \in HeapAddresses \cup {nullptr} :
       BufferConstructSized(t, size, newData)
  \/ \E newSize \in BufferSizes, newData \in HeapAddresses \cup {nullptr}, aborts \in BOOLEAN :
       BufferResize(newSize, newData, aborts)
  \/ \E aborts \in BOOLEAN : BufferClear(aborts)
  \/ \E aborts \in BOOLEAN : BufferDestroy(aborts)

SpanNext ==
  \/ \E channels \in 0..MaxChannels, numFrames \in SpanLens :
       AudioSpanFromPointers(channels, numFrames)
  \/ \E lens \in SpanLists : AudioSpanFromSpans(lens)

Init == VoiceInit /\ PoolInit /\ DataInit

SpecBuffer == Init /\ [][BufferNext]_vars

SpecSpan == Init /\ [][SpanNext]_vars

SpecVoice == Init /\ [][VoiceNext]_vars

\* the control thread loading and reloading the heads, the other threads idle
PreloadNext ==
  \/ \E name \in FileNames, maxOffset \in MaxOffsets : PreloadFile(name, maxOffset)
  \/ \E size \in PreloadSizes : SetPreloadSize(size)
  \/ \E factor \in OversamplingFactors : SetOversamplingFactor(factor)

SpecPreload == Init /\ [][PreloadNext]_vars

SpecPool == Init /\ [][PoolNext]_vars

\* a pool whose control thread waits for the background loading while the
\* audio thread asks for promises and sweeps the filled queue
PoolWaitNext ==
  \/ \E name \in FileNames : PreloadFile(name, 0)
  \/ \E name \in FileNames : GetFilePromise(name)
  \/ GetFilePromiseReturn
  \/ \E p \in PromiseIds : DropPromise(p)
  \/ CleanupPromises
  \/ CleanupPromisesReturn
  \/ \E l \in Loaders : LoaderStep(l)
  \/ EmptyFileLoadingQueues
  \/ EmptyFileLoadingQueuesReturn
  \/ WaitForBackgroundLoading
  \/ WaitQueueEmpty
  \/ WaitThreadsDone

\* the loaders, the sweep of the audio thread and the waiting control thread
\* are threads the scheduler keeps running
FairSpecPoolWait ==
  /\ Init /\ [][PoolWaitNext]_vars
  /\ \A l \in Loaders : WF_vars(LoaderStep(l))
  /\ WF_vars(CleanupPromises)
  /\ WF_vars(CleanupPromisesReturn)
  /\ WF_vars(WaitQueueEmpty)
  /\ WF_vars(WaitThreadsDone)

\* a pool whose control thread changes the oversampling factor while the
\* audio thread asks for promises and the loader decodes them
PoolOversamplingNext ==
  \/ \E name \in FileNames : PreloadFile(name, 0)
  \/ \E factor \in OversamplingFactors : SetOversamplingFactor(factor)
  \/ \E name \in FileNames : GetFilePromise(name)
  \/ GetFilePromiseReturn
  \/ CleanupPromises
  \/ CleanupPromisesReturn
  \/ EmptyFileLoadingQueues
  \/ EmptyFileLoadingQueuesReturn
  \/ \E l \in Loaders : LoaderStep(l)

SpecPoolOversampling == Init /\ [][PoolOversamplingNext]_vars

\* a pool with MaxLoaders loader threads that is asked once, before any
\* promise, to empty its queues, and then serves promises: the audio thread
\* asks for them and sweeps the filled queue, the loaders run
PoolEmptyNext ==
  \/ \E name \in FileNames : PreloadFile(name, 0)
  \/ nextPromise = 1 /\ emptyPhase = "none" /\ EmptyFileLoadingQueues
  \/ EmptyFileLoadingQueuesReturn
  \/ \E name \in FileNames : GetFilePromise(name)
  \/ GetFilePromiseReturn
  \/ CleanupPromises
  \/ CleanupPromisesReturn
  \/ \E l \in LoaderThreads : LoaderStep(l)

\* every loader is a thread of its own that the scheduler keeps running, and
\* the audio thread keeps sweeping the filled queue
FairSpecPoolEmpty ==
  /\ Init /\ [][PoolEmptyNext]_vars
  /\ \A l \in LoaderThreads : WF_vars(LoaderStep(l))
  /\ WF_vars(CleanupPromises)
  /\ WF_vars(CleanupPromisesReturn)

\* every loader is a thread of its own that the scheduler keeps running, and
\* so is the thread that waits in join()
FairSpecPoolQuit ==
  /\ Init /\ [][PoolQuitNext]_vars
  /\ \A l \in Loaders : WF_vars(LoaderStep(l))
  /\ WF_vars(DestructorJoined)

\* arming, rendering and the delivery of the file, in any order
VoiceLoadNext ==
  \/ \E r \in RegionIds, delay \in Delays, pitch \in PitchRatios :
       StartVoice(r, delay, 1, 60, "NoteOn", pitch) /\ PoolIdle
  \/ \E n \in BlockLens : RenderBlock(n) /\ PoolIdle
  \/ Reset /\ PoolIdle
  \/ VoiceDataNext

SpecVoiceData == Init /\ [][VoiceLoadNext]_vars

\* the whole life of a voice: arming, note-offs, release, rendering, reset
\* and the delivery and collection of the file, in any order
VoiceLifeNext ==
  \/ \E r \in RegionIds, delay \in Delays, pitch \in PitchRatios :
       StartVoice(r, delay, 1, 60, "NoteOn", pitch) /\ PoolIdle
  \/ \E delay \in Delays, channel \in Channels, number \in Notes, sustain \in CCValues :
       RegisterNoteOff(delay, channel, number, sustain) /\ PoolIdle
  \/ \E delay \in Delays, cc \in CCNumbers, value \in CCValues :
       RegisterCC(delay, cc, value) /\ PoolIdle
  \/ \E delay \in Delays : Release(delay) /\ PoolIdle
  \/ \E n \in BlockLens : RenderBlock(n) /\ PoolIdle
  \/ Reset /\ PoolIdle
  \/ VoiceDataNext

SpecVoiceLife == Init /\ [][VoiceLifeNext]_vars

\* arming, releasing and rendering with blocks longer than the samples, and
\* with the delays a caller can hand to startVoice
ReadBlockLens == 1..MaxReadBlock
StartDelays == -1..MaxDelay

VoiceReadNext ==
  \/ \E r \in RegionIds, delay \in StartDelays, pitch \in PitchRatios :
       StartVoice(r, delay, 1, 60, "NoteOn", pitch) /\ PoolIdle
  \/ \E delay \in Delays : Release(delay) /\ PoolIdle
  \/ \E n \in ReadBlockLens : RenderBlock(n) /\ PoolIdle
  \/ Reset /\ PoolIdle

SpecRead == Init /\ [][VoiceReadNext]_vars

\* arming, releasing and rendering alone, where the host renders block after block
VoiceRenderNext ==
  \/ \E r \in RegionIds, delay \in Delays, pitch \in PitchRatios :
       StartVoice(r, delay, 1, 60, "NoteOn", pitch) /\ PoolIdle
  \/ \E delay \in Delays : Release(delay) /\ PoolIdle
  \/ \E n \in BlockLens : RenderBlock(n) /\ PoolIdle
  \/ Reset /\ PoolIdle

FairSpecVoice ==
  Init /\ [][VoiceRenderNext]_vars
       /\ WF_vars(\E n \in BlockLens : RenderBlock(n) /\ PoolIdle)

(***************************************************************************)
(* C1: the state becomes release only from playing: an idle voice never    *)
(* becomes release in one call, and release() on a voice that is not       *)
(* playing changes neither the state nor the ADSR envelope.                *)
(***************************************************************************)
C1_ReleaseOnlyFromPlaying ==
  [][ /\ (state = "idle" => state' # "release")
      /\ ((lastCall' = "release" /\ state # "playing")
            => (state' = state /\ egEnvelope' = egEnvelope)) ]_vars

\* release() was called on an idle voice
C1_Witness == lastCall = "release" /\ state = "idle"

(***************************************************************************)
(* C2: a releasing voice that keeps being rendered leaves the release      *)
(* state: it becomes idle, unless startVoice arms it again first; and an   *)
(* idle voice is free.                                                     *)
(***************************************************************************)
C2_ReleaseLeadsToIdle ==
  /\ (state = "release") ~> (state = "idle" \/ lastCall = "startVoice")
  /\ [](state = "idle" => isFree)

\* renderBlock found the envelope ended and reset the voice
C2_Witness == lastCall = "renderBlock.reset" /\ state = "idle" /\ isFree


(***************************************************************************)
(* The pool's claims, checked under SpecPool.                              *)
(***************************************************************************)
LoaderSites == {"loader:promisesToClean", "loader:dequeue", "loader:reset"}

C4_NoUnreferencedEntryOnReturn ==
  audioPc = "cleanupPromises" =>
    \A p \in Range(temporaryFilePromises) : use_count(p) # 1

\* C4, amended: when cleanupPromises returns, an entry of
\* temporaryFilePromises has a use count of one only if a loader still held
\* it (between its push onto the filled queue and its promise.reset())
\* while the list was swept.
C4_UnreferencedEntryWasHeldByLoader ==
  audioPc = "cleanupPromises" =>
    \A p \in Range(temporaryFilePromises) : use_count(p) = 1 => p \in sweepHeld

C4_Witness ==
  /\ audioPc = "cleanupPromises"
  /\ promisesToClean # << >>
  /\ \E p \in Range(temporaryFilePromises) : use_count(p) = 1 /\ p \in sweepHeld

\* C5: dataReady is set only on a promise whose fileData is written, a
\* decoded promise is on the filled queue only once dataReady is set,
\* fileData is written at most once, and no reader that saw dataReady found
\* fileData unwritten.
C5_FileDataBeforeDataReady ==
  /\ \A p \in PromiseIds :
       /\ promise[p].dataReady => promise[p].fileData # nullptr
       /\ fileWrites[p] <= 1
       /\ (p \in pushed /\ fileWrites[p] > 0) => promise[p].dataReady
  /\ ~readBeforeWrite

C5_Witness ==
  /\ fullRead
  /\ \E p \in pushed : promise[p].dataReady /\ fileWrites[p] = 1

\* C6: a promise's dataReady, once true, stays true.
C6_DataReadyMonotone ==
  [][ \A p \in PromiseIds : promise[p].dataReady => promise'[p].dataReady ]_vars

C6_Witness ==
  \E p \in PromiseIds :
    /\ promise[p].dataReady
    /\ p \in Range(temporaryFilePromises)
    /\ nextPromise > MaxPromises
    /\ ctrlPc = "emptyFileLoadingQueues"

\* C7 as stated: the promise getFilePromise returns is fresh; for a
\* preloaded name it carries the head, is enqueued and has exactly two
\* owners on return; for another name it has no preloadedData and is not
\* enqueued.
C7_ExactlyTwoOwners ==
  audioPc = "getFilePromise" =>
    /\ returned = nextPromise - 1
    /\ IF promise[returned].filename # ""
       THEN /\ promise[returned].preloadedData # nullptr
            /\ enqueued
            /\ use_count(returned) = 2
       ELSE /\ promise[returned].preloadedData = nullptr
            /\ ~enqueued

\* C7, amended: the promise getFilePromise returns is fresh; for a preloaded
\* name it carries the head, filename, sample rate and oversampling factor;
\* it is placed on the pending queue only if the queue has room, and then on
\* return the caller and at least one other owner (the queue, the worker
\* that took it, the filled queue) hold it, at most three in all; if the
\* queue is full the caller is its only owner; for a name that is not
\* preloaded it has no preloadedData, is not enqueued and the caller is its
\* only owner.
C7_TwoOwnersIfRoom ==
  audioPc = "getFilePromise" =>
    /\ returned = nextPromise - 1
    /\ returned \in callerHolds
    /\ IF promise[returned].filename # ""
       THEN /\ preloadedFiles[promise[returned].filename].present =>
                /\ promise[returned].preloadedData
                     = preloadedFiles[promise[returned].filename].frames
                /\ promise[returned].sampleRate
                     = preloadedFiles[promise[returned].filename].sampleRate
            /\ promise[returned].preloadedData # nullptr
            /\ promise[returned].oversamplingFactor = oversamplingFactor
            /\ IF enqueued THEN use_count(returned) \in {2, 3}
                           ELSE use_count(returned) = 1
       ELSE /\ promise[returned] = EmptyPromise
            /\ ~enqueued
            /\ use_count(returned) = 1

C7_Witness ==
  /\ audioPc = "getFilePromise"
  /\ promise[returned].filename # ""
  /\ ~enqueued

\* C8: a promise the loader found abandoned is never decoded and never gets
\* dataReady; a promise the loader found held by its caller is decoded and
\* pushed onto the filled queue before the loader goes on.
C8_AbandonedSkippedHeldDecoded ==
  \A p \in PromiseIds :
    /\ took[p] = "abandoned" => (fileWrites[p] = 0 /\ ~promise[p].dataReady)
    /\ (took[p] = "held"
          /\ \A l \in Loaders :
               loaderPromise[l] = p => loaderPc[l] \notin {"open", "ready", "push", "sleep"})
         => (promise[p].dataReady /\ p \in pushed)

\* C9: threadsLoading stays between 0 and numBackgroundThreads.
C9_ThreadsLoadingBounded ==
  threadsLoading \in 0..NumBackgroundThreads

\* C10: a promise that was pending when emptyFileLoadingQueues was called is
\* never decoded nor gets dataReady, and when the call returns the pending
\* queue is empty and emptyQueue is false (no getFilePromise in between).
C10_EmptyLeavesUnfulfilled ==
  /\ emptyPhase \in {"running", "returned", "after"} =>
       \A p \in pendingAtEmpty : fileWrites[p] = 0 /\ ~promise[p].dataReady
  /\ emptyPhase = "returned" => (promiseQueue = << >> /\ ~emptyQueue)

\* C11: once the destructor has set the quit flag, every loader eventually
\* leaves its loop, so that the join completes.
C11_QuitLeadsToJoin ==
  quitThread ~> (\A l \in Loaders : loaderPc[l] = "done")

\* C12: whenever preloadFile(name, maxOffset) returns true on a file whose
\* head only preloadFile has loaded, the head is resident and holds at least
\* min(fileFrames, maxOffset + preloadSize) frames of the file, that many
\* times the oversampling factor after oversampling; a request that needs
\* more frames of the file than are resident loads the head again, another
\* one leaves it as it is.
C12_PreloadCoversPrefix ==
  \A name \in FileNames \ reloaded, maxOffset \in MaxOffsets :
    LET before == preloadedFiles[name]
        after == preloadFile(preloadedFiles, name, maxOffset)[name]
        need == Min(Disk[name].frames, maxOffset + preloadSize)
    IN preloadFileReturns(name) =>
         /\ after.present
         /\ headFrames(after, oversamplingFactor) >= need
         /\ (before.present /\ headFrames(before, oversamplingFactor) >= need)
              => after = before
         /\ (before.present /\ headFrames(before, oversamplingFactor) < need)
              => after.frames = need * oversamplingFactor

\* C13: setOversamplingFactor is idempotent: in every state of the pool and
\* for every factor, a second call with the same factor leaves the factor,
\* and the frame count and the sample rate of every head, as the first call
\* left them.
C13_SetOversamplingFactorIdempotent ==
  \A factor \in OversamplingFactors :
    LET once == setOversamplingFactor(preloadedFiles, preloadSize, oversamplingFactor,
                                      factor)
        twice == setOversamplingFactor(once, preloadSize, factor, factor)
    IN \A name \in FileNames :
         /\ twice[name].present = once[name].present
         /\ twice[name].frames = once[name].frames
         /\ twice[name].sampleRate = once[name].sampleRate

C13_Witness ==
  /\ preloadedFiles["a.wav"].present
  /\ "a.wav" \in reloaded
  /\ oversamplingFactor = 4
  /\ preloadedFiles["a.wav"].frames > preloadSize * 4
  /\ setOversamplingFactor(preloadedFiles, preloadSize, 4, 2) # preloadedFiles
  /\ setOversamplingFactor(preloadedFiles, preloadSize, 4, 4) = preloadedFiles

\* C14: the sample rate stored with a head is the rate of the file times the
\* oversampling factor of the pool, whatever calls of preloadFile,
\* setPreloadSize and setOversamplingFactor came before.
C14_StoredRateFollowsFactor ==
  \A name \in FileNames :
    preloadedFiles[name].present =>
      preloadedFiles[name].sampleRate = Disk[name].samplerate * oversamplingFactor

C14_Witness ==
  /\ preloadedFiles["a.wav"].present
  /\ "a.wav" \in reloaded
  /\ oversamplingFactor = 8
  /\ preloadSize # PreloadFrames
  /\ preloadedFiles["a.wav"].sampleRate = 8 * Disk["a.wav"].samplerate

(***************************************************************************)
(* C15: registerNoteOff on a playing voice whose trigger channel and note  *)
(* are the event's latches noteIsOff; on a one-shot region nothing else    *)
(* changes; on another region the voice is released at the event's delay   *)
(* if the sustain controller is below the half threshold.  A note-off of   *)
(* another channel or note, or one on a voice that is not playing, leaves  *)
(* the voice as it was.                                                    *)
(***************************************************************************)
C15_NoteOffLatchesAndReleases ==
  [][ \A delay \in Delays, channel \in Channels, number \in Notes, sustain \in CCValues :
        RegisterNoteOff(delay, channel, number, sustain) =>
          LET hit == state = "playing" /\ triggerChannel = channel
                     /\ triggerNumber = number
              rest == << region, triggerType, triggerNumber, triggerChannel,
                         initialDelay, sourcePosition, floatPositionOffset,
                         pitchRatio, speedRatio, dataReady, fileData, ticket >>
          IN /\ hit => noteIsOff' /\ UNCHANGED rest
             /\ (hit /\ Regions[region].oneShot)
                  => UNCHANGED << state, egEnvelope >>
             /\ (hit /\ ~Regions[region].oneShot /\ sustain < HalfCCThreshold)
                  => /\ state' = "release"
                     /\ egEnvelope' = EGStartRelease(egEnvelope, delay)
             /\ ~hit => UNCHANGED << rest, state, egEnvelope, noteIsOff >> ]_vars

\* a note-off released a voice playing a region that waits for the pedal
C15_Witness ==
  /\ lastCall = "registerNoteOff" /\ state = "release" /\ noteIsOff
  /\ region # nullptr /\ ~Regions[region].oneShot /\ Regions[region].checkSustain
  /\ egEnvelope.shouldRelease /\ egEnvelope.releaseDelay = MaxDelay

sourceCC(r, e) ==
  CASE e = "amplitude" -> r.amplitudeCC
    [] e = "volume" -> r.volumeCC
    [] e = "pan" -> r.panCC
    [] e = "position" -> r.positionCC
    [] e = "width" -> r.widthCC

C17_EachControllerOnItsEnvelope ==
  [][ \A delay \in Delays, cc \in CCNumbers, value \in CCValues :
        (RegisterCC(delay, cc, value) /\ region # nullptr) =>
          \A e \in Envelopes :
            IF sourceCC(Regions[region], e) = cc
            THEN /\ \E ev \in envelopeEvents'[e] \ envelopeEvents[e] : ev[1] = delay
                 /\ envelopeEvents[e] \subseteq envelopeEvents'[e]
            ELSE envelopeEvents'[e] = envelopeEvents[e] ]_vars

(***************************************************************************)
(* C18: checkOffGroup(delay, g) releases a playing voice at delay exactly  *)
(* when the voice is armed, was triggered by a note-on and the off-by      *)
(* group of its region is g.  On any other voice (another off-by group, no *)
(* off-by group, a trigger that is not a note-on, or an idle voice) it     *)
(* returns false and changes nothing; so of two playing note-on voices     *)
(* with off-by groups 7 and 3, an event of group 7 releases the first only.*)
(***************************************************************************)
C18_OffGroupReleasesItsVoices ==
  [][ \A delay \in Delays, group \in Groups :
        CheckOffGroup(delay, group) =>
          LET mine == /\ region # nullptr /\ triggerType = "NoteOn"
                      /\ Regions[region].offBy = group
              released == /\ state' = "release"
                          /\ egEnvelope' = EGStartRelease(egEnvelope, delay)
          IN /\ state = "playing" => (released <=> mine)
             /\ ~mine => /\ ~checkOffGroup(group)
                          /\ UNCHANGED << state, egEnvelope, region, noteIsOff,
                                          sourcePosition, floatPositionOffset,
                                          dataReady, fileData, envelopeEvents >>
             /\ (state = "playing" /\ triggerType = "NoteOn" /\ group = 7)
                  => /\ Regions[region].offBy = 7 => state' = "release"
                     /\ Regions[region].offBy = 3 => state' = "playing" ]_vars

\* a playing note-on voice of off-by group 7 was released by the group's event
C18_Witness ==
  /\ lastCall = "checkOffGroup" /\ state = "release" /\ triggerType = "NoteOn"
  /\ region # nullptr /\ Regions[region].offBy = 7
  /\ egEnvelope.shouldRelease /\ egEnvelope.releaseDelay = MaxDelay

(***************************************************************************)
(* C19: setFileData(buf, t) stores the buffer and marks the data ready     *)
(* exactly when t is the ticket last given to expectFileData; a delivery   *)
(* with another ticket leaves fileData and dataReady as they were.  Only   *)
(* an accepted delivery marks the data ready, so after a stale delivery to *)
(* a voice without data every renderBlock still reads the preloaded head.  *)
(***************************************************************************)
C19_StaleTicketDropped ==
  [][ /\ \A t \in Tickets :
           SetFileData(FullFileFrames, t) =>
             IF t = ticket
             THEN fileData' = FullFileFrames /\ dataReady'
             ELSE UNCHANGED << fileData, dataReady >>
      /\ \A t \in Tickets : ExpectFileData(t) => ticket' = t
      /\ ticket' # ticket => lastCall' = "expectFileData"
      /\ (~dataReady /\ dataReady') => lastCall' = "setFileData"
      /\ \A n \in BlockLens :
           ( /\ RenderBlock(n) /\ lastCall' = "renderBlock" /\ ~dataReady
             /\ ~Regions[region].generator /\ n > Min(initialDelay, n) )
             => LET r == Regions[region]
                    m == n - Min(initialDelay, n)
                    head == BlockReads(r, r.preloadFrames, sourcePosition,
                                       floatPositionOffset, pitchRatio * speedRatio, m)
                IN sourcePosition' = head.indices[m] ]_vars

\* a delivery with a stale ticket was dropped by a playing voice that reads
\* the file itself once it has it
C19_Witness ==
  /\ lastCall = "setFileData" /\ ~dataReady /\ fileData = nullptr
  /\ state = "playing" /\ region # nullptr /\ ~Regions[region].usePreload

(***************************************************************************)
(* C20: on a looping region whose loop end lies within the source, after   *)
(* every renderBlock 0 <= sourcePosition < sampleEnd, where sampleEnd is   *)
(* min(trueSampleEnd, frames of the source) - 1, whatever the block length *)
(* and the advance per sample.                                             *)
(***************************************************************************)
C20_LoopKeepsPositionInRange ==
  (lastCall = "renderBlock" /\ region # nullptr) =>
    LET r == Regions[region]
        frames == SourceFrames(r, dataReady, fileData)
    IN (r.loops /\ r.loopEnd <= frames)
         => (0 <= sourcePosition /\ sourcePosition < sampleEndOf(r, frames))

(***************************************************************************)
(* What a block reads, for the claims on fillWithData.                     *)
(***************************************************************************)
\* the voice is armed on a sample and the block of n frames reads m > 0 of it
ReadsSample(n) ==
  /\ state # "idle" /\ region # nullptr /\ ~Regions[region].generator
  /\ n > Min(initialDelay, n)

\* the integer indices the block of n frames reads
blockIndices(n) ==
  LET r == Regions[region]
  IN BlockReads(r, SourceFrames(r, dataReady, fileData), sourcePosition,
                floatPositionOffset, pitchRatio * speedRatio,
                n - Min(initialDelay, n)).indices

(***************************************************************************)
(* C21: on a looping region read at unit rate, once the read position is   *)
(* in the loop, the indices a block reads repeat with period               *)
(* loopEnd - loopStart and each period visits every frame of               *)
(* [loopStart, loopEnd) exactly once.                                      *)
(***************************************************************************)
C21_LoopPeriod ==
  [][ \A n \in ReadBlockLens :
        LET r == Regions[region]
            period == r.loopEnd - r.loopStart
            m == n - Min(initialDelay, n)
            idx == blockIndices(n)
        IN ( /\ RenderBlock(n) /\ ReadsSample(n)
             /\ r.loops /\ r.loopEnd <= SourceFrames(r, dataReady, fileData)
             /\ pitchRatio * speedRatio = Den /\ floatPositionOffset = 0
             /\ sourcePosition >= r.loopStart /\ sourcePosition < r.loopEnd
             /\ m >= period )
           => /\ { idx[k] : k \in 1..period } = r.loopStart..(r.loopEnd - 1)
              /\ \A k \in 1..(m - period) : idx[k + period] = idx[k] ]_vars

(***************************************************************************)
(* C22: a mono region of N frames that does not loop, armed with offset 0  *)
(* and no delay and read at unit rate, rendered in one block longer than   *)
(* N: output frame i carries source frame i for every i in 0..N-1, and     *)
(* every output frame from N on is silent.                                 *)
(***************************************************************************)
C22_FirstBlockCopiesSample ==
  [][ \A n \in ReadBlockLens :
        LET r == Regions[region]
            frames == SourceFrames(r, dataReady, fileData)
            out == renderOutput(n)
        IN ( /\ RenderBlock(n) /\ ReadsSample(n) /\ lastCall = "startVoice"
             /\ ~r.loops /\ ~r.stereo /\ r.offset = 0 /\ r.trueSampleEnd = frames
             /\ initialDelay = 0 /\ floatPositionOffset = 0
             /\ pitchRatio * speedRatio = Den /\ n > frames )
           => /\ \A i \in 0..(frames - 1) : out[i + 1] = [index |-> i, right |-> 0]
              /\ \A i \in frames..(n - 1) : out[i + 1] = Silence ]_vars

(***************************************************************************)
(* C27: on a region that does not loop, when an index of the block reaches *)
(* sampleEnd while the voice is playing, renderBlock releases the voice at *)
(* the offset in the block of the first index equal to sampleEnd and       *)
(* zeroes the block from that offset on; a looping region is never         *)
(* released by the end of its sample.                                      *)
(***************************************************************************)
\* the offset renderBlock hands to release() at the end of the sample (-1: none)
endOfSampleRelease(n) ==
  LET r == Regions[region]
  IN fillWithData(state, r, dataReady, fileData, sourcePosition, floatPositionOffset,
                  pitchRatio * speedRatio, n - Min(initialDelay, n)).releaseAt

C27_EndOfSampleReleases ==
  [][ \A n \in ReadBlockLens :
        (RenderBlock(n) /\ ReadsSample(n)) =>
          LET r == Regions[region]
              d == Min(initialDelay, n)
              sampleEnd == sampleEndOf(r, SourceFrames(r, dataReady, fileData))
              idx == blockIndices(n)
              reached == { k \in 1..(n - d) : idx[k] = sampleEnd }
              first == CHOOSE k \in reached : \A j \in reached : k <= j
              out == renderOutput(n)
          IN /\ (~r.loops /\ state = "playing" /\ reached # {})
                  => /\ endOfSampleRelease(n) = d + first - 1
                     /\ \A k \in (d + first)..n : out[k] = Silence
                     /\ lastCall' = "renderBlock" => state' = "release"
             /\ r.loops => /\ endOfSampleRelease(n) = -1
                            /\ state # "release" => state' # "release" ]_vars

(***************************************************************************)
(* C28: on a region that does not loop, every output frame whose read      *)
(* position lies past sampleEnd is the source frame at index sampleEnd:    *)
(* the voice holds the last frame for as long as it keeps rendering.       *)
(***************************************************************************)
\* the source frames an output frame is made of, with their weights in 1/Den
frameTerms(f) ==
  { t \in { << f.index, Den - f.right >>, << f.index + 1, f.right >> } : t[2] # 0 }

C28_HoldsLastFrame ==
  [][ \A n \in ReadBlockLens :
        (RenderBlock(n) /\ ReadsSample(n) /\ ~Regions[region].loops) =>
          LET r == Regions[region]
              d == Min(initialDelay, n)
              sampleEnd == sampleEndOf(r, SourceFrames(r, dataReady, fileData))
              raw == RawIndices(sourcePosition, floatPositionOffset,
                                pitchRatio * speedRatio, n - d)
              out == renderOutput(n)
          IN \A k \in 1..(n - d) :
               raw[k] > sampleEnd => frameTerms(out[d + k]) = {<< sampleEnd, Den >>} ]_vars

(***************************************************************************)
(* C29: after every renderBlock, on looping regions and on the others, the *)
(* voice's floatPositionOffset lies in [0, 1).                             *)
(***************************************************************************)
C29_FractionBelowOne ==
  lastCall \in {"renderBlock", "renderBlock.idle", "renderBlock.reset"}
    => (0 <= floatPositionOffset /\ floatPositionOffset < Den)

resized ==
  /\ bufferCall.name \in {"resize", "Buffer"}
  /\ bufferCall.newSize > 0
  /\ bufferCall.returned

\* C23: after every successful resize(N) with N > 0, for every element type
\* and alignment 4, 8 or 16: alignedEnd >= end >= data, end = data + N
\* elements, data and alignedEnd are a multiple of the alignment apart (in
\* bytes, both are aligned addresses), and [data, alignedEnd) lies inside
\* the raw block that the allocator returned.
C23_AlignedRangeInsideAllocation ==
  resized =>
    /\ buffer.alignedEnd >= buffer.normalEnd
    /\ buffer.normalEnd >= buffer.normalData
    /\ buffer.normalEnd = buffer.normalData + bufferCall.newSize * bufferType.sizeof
    /\ (buffer.alignedEnd - buffer.normalData) % bufferType.alignment = 0
    /\ buffer.normalData % bufferType.alignment = 0
    /\ \E b \in heap :
         /\ b.addr = buffer.paddedData
         /\ b.addr <= buffer.normalData
         /\ buffer.alignedEnd <= b.addr + b.bytes

\* a resize whose data pointer had to be moved forward in the block and whose
\* aligned end lies past the logical end
C23_Witness ==
  /\ resized
  /\ bufferCall.name = "resize"
  /\ buffer.normalData > buffer.paddedData
  /\ buffer.alignedEnd > buffer.normalEnd
  /\ bufferType.sizeof = 1

\* C24: after resize(N), alignedEnd = data + ceil(N / lanes) * lanes with
\* lanes = alignment / sizeof(T) elements per alignment unit: the aligned end
\* is the logical end rounded up to the next multiple of lanes, never more
\* than lanes - 1 elements past end.
C24_AlignedEndRoundsUpToLanes ==
  (bufferCall.name \in {"resize", "Buffer"} /\ bufferCall.returned) =>
    LET lanes == bufferType.alignment \div bufferType.sizeof
        N == bufferCall.newSize
    IN /\ buffer.alignedEnd
            = buffer.normalData + ((N + lanes - 1) \div lanes) * lanes * bufferType.sizeof
       /\ buffer.alignedEnd - buffer.normalEnd <= (lanes - 1) * bufferType.sizeof

\* C25 as stated: when the allocation inside resize fails, resize returns
\* false; a buffer that was empty is left as it was, and a buffer that was
\* not empty is left cleared, with size 0 and null data.
C25_FailureClearsNonEmpty ==
  (bufferCall.name = "resize" /\ bufferCall.newSize > 0 /\ ~bufferCall.returned) =>
    /\ buffer.alignedSize = 0
    /\ buffer.normalData = nullptr

\* C25, amended: when the allocation inside resize fails, resize returns
\* false and leaves the buffer as it was, empty or not: the size, the four
\* pointers and the raw block are the ones from before the call. resize
\* returns false in no other case.
C25_FailureLeavesBufferAsItWas ==
  [][ (bufferCall'.name = "resize" /\ bufferCall'.newSize > 0) =>
        /\ \A aborts \in BOOLEAN :
             BufferResize(bufferCall'.newSize, nullptr, aborts) =>
               /\ ~bufferCall'.returned
               /\ buffer' = buffer
               /\ heap' = heap
        /\ ~bufferCall'.returned =>
             \E aborts \in BOOLEAN : BufferResize(bufferCall'.newSize, nullptr, aborts) ]_vars

\* a resize of a buffer that was not empty has failed, and the buffer still
\* has its elements
C25_Witness ==
  /\ bufferCall.name = "resize"
  /\ ~bufferCall.returned
  /\ bufferCall.sizeBefore > 0
  /\ buffer.alignedSize = bufferCall.sizeBefore
  /\ buffer.normalData # nullptr
  /\ isLive(heap, buffer.paddedData)

(***************************************************************************)
(* AudioSpan: the constructor from a list of spans.                        *)
(***************************************************************************)
\* C26: an AudioSpan constructed from a list of per-channel spans has as
\* many channels as there are spans and as many frames as the shortest of
\* the spans.
C26_FramesAreShortestSpan ==
  (spanCall.name = "spans" /\ spanCall.lens # << >>) =>
    /\ audioSpan.numChannels = Len(spanCall.lens)
    /\ \A c \in 1..Len(spanCall.lens) : audioSpan.numFrames <= spanCall.lens[c]
    /\ \E c \in 1..Len(spanCall.lens) : audioSpan.numFrames = spanCall.lens[c]

(***************************************************************************)
(* The voice at the end of a block.                                        *)
(***************************************************************************)
\* C31: a renderBlock on an armed voice that ends with the ADSR envelope no
\* longer smoothing resets the voice before it returns: the state is idle,
\* the region null, the file data and its ready flag released, noteIsOff
\* false and the read position 0.  When the envelope is still smoothing the
\* end-of-block check changes neither the state nor the region: the region
\* is the one before the call and the state is the one fillWithData left,
\* which is not idle.
C31_EndOfEnvelopeResets ==
  [][ (lastCall' \in {"renderBlock", "renderBlock.reset"}
         /\ state # "idle" /\ region # nullptr) =>
        IF ~EGIsSmoothing(egEnvelope')
        THEN /\ state' = "idle"
             /\ region' = nullptr
             /\ fileData' = nullptr
             /\ dataReady' = FALSE
             /\ noteIsOff' = FALSE
             /\ sourcePosition' = 0
             /\ floatPositionOffset' = 0
        ELSE /\ region' = region
             /\ state' # "idle"
             /\ state' = state \/ (state = "playing" /\ state' = "release") ]_vars

\* a block has ended the envelope of a voice that had been given a ticket
\* and a file, and the voice is reset
C31_Witness ==
  /\ lastCall = "renderBlock.reset"
  /\ ~EGIsSmoothing(egEnvelope)
  /\ ticket = 1
  /\ state = "idle" /\ region = nullptr
  /\ fileData = nullptr /\ ~dataReady /\ ~noteIsOff
  /\ sourcePosition = 0 /\ floatPositionOffset = 0

\* C32: for a one-shot region no registerNoteOff and no registerCC moves the
\* voice from playing to release, a matching note-off followed by a sustain
\* controller below the threshold included.
C32_OneShotIgnoresNoteOffAndPedal ==
  [][ (lastCall' \in {"registerNoteOff", "registerCC"}
         /\ region # nullptr /\ Regions[region].oneShot /\ state = "playing") =>
        state' = "playing" ]_vars

(***************************************************************************)
(* The file of a voice.                                                    *)
(***************************************************************************)
\* C33: in every state reachable by expectFileData, setFileData, startVoice,
\* renderBlock, reset and garbageCollect, dataReady implies that fileData is
\* not null, so a voice that reads its source from the file, because its
\* region cannot use the preloaded head and dataReady is set, has a file to
\* read.  (That the file is the one of the current arming follows only if
\* this holds.)
C33_ReadyImpliesFile ==
  /\ dataReady => fileData # nullptr
  /\ (state # "idle" /\ region # nullptr /\ dataReady
        /\ ~Regions[region].usePreload /\ ~Regions[region].generator) =>
       fileData # nullptr

\* C34: every source frame a block of sampled data reads, the integer index
\* i and its interpolation neighbour i + 1, lies in [0, source.frames), for
\* looping and non-looping regions, every block length and every advance.
C34_ReadsInsideSource ==
  [][ \A n \in ReadBlockLens :
        (RenderBlock(n) /\ ReadsSample(n)) =>
          LET frames == SourceFrames(Regions[region], dataReady, fileData)
              idx == blockIndices(n)
          IN \A k \in DOMAIN idx : 0 <= idx[k] /\ idx[k] + 1 < frames ]_vars

(***************************************************************************)
(* Buffer: the raw block and the allocator.                                *)
(***************************************************************************)
\* C35: across any sequence of resize, clear and destruction of a Buffer, no
\* raw block is passed to free or to realloc after it has been freed: a
\* resize(N) or a destruction that follows clear() or resize(0) does not
\* touch the freed block, and the buffer never holds a pointer to a block
\* that is no longer allocated.
C35_NoUseAfterFree ==
  /\ heapFault = "none"
  /\ bufferAlive => ~stale(heap, buffer.paddedData)

(***************************************************************************)
(* The pool after emptyFileLoadingQueues.                                  *)
(***************************************************************************)
\* C36: every promise that getFilePromise enqueues after a call of
\* emptyFileLoadingQueues has returned is eventually taken by a loader and
\* pushed onto the filled queue, with the loaders scheduled fairly and the
\* audio thread sweeping the filled queue, for any number of loaders: no
\* loader that still drains for the earlier request discards it.
C36_EnqueuedAfterEmptyIsLoaded ==
  /\ [](emptyPhase = "after" => \A p \in PromiseIds : took[p] # "drained")
  /\ \A p \in PromiseIds :
       (emptyPhase = "after" /\ p \in Range(promiseQueue)) ~> (p \in pushed)

\* C37: whenever the pending queue is empty and no loader is in the middle
\* of a decode, threadsLoading is 0, so that a waitForBackgroundLoading that
\* was called eventually returns, on every loader path; a promise whose
\* file cannot be opened also still reaches the filled queue.
C37_WaitForBackgroundLoadingReturns ==
  /\ []((promiseQueue = << >> /\ \A l \in Loaders : loaderPc[l] \notin {"open", "ready"})
          => threadsLoading = 0)
  /\ (ctrlPc = "waitForBackgroundLoading.queue") ~> (ctrlPc = "idle")
  /\ \A p \in PromiseIds : (took[p] = "held") ~> (p \in pushed)

\* C38: the full-file buffer of every fulfilled promise was decoded at the
\* oversampling factor recorded in that promise, whatever setOversamplingFactor
\* did between getFilePromise and the decode of the loader.
C38_DecodedAtRecordedFactor ==
  \A p \in PromiseIds :
    promise[p].dataReady =>
      promise[p].fileData = Disk[promise[p].filename].frames * promise[p].oversamplingFactor

\* C39: in every reachable state the voice is idle if and only if its region
\* pointer is null, so that isFree() is true exactly for an idle voice and
\* canBeStolen() exactly for a voice in the release state.
C39_IdleIffNoRegion ==
  /\ (state = "idle") <=> (region = nullptr)
  /\ isFree <=> (state = "idle")
  /\ canBeStolen <=> (state = "release")

\* a voice that was started and released and was then rendered, still in its
\* release: it can be stolen and is not free
C39_Witness ==
  /\ lastCall = "renderBlock"
  /\ state = "release"
  /\ region # nullptr
  /\ canBeStolen
  /\ ~isFree
====
